---------------------------- MODULE Spec2Model ----------------------------
(***************************************************************************)
(* A model of jcmd (src/jcmd.py): the JSON command tree (JNode), the line  *)
(* parser, the completion engine, the argument resolver and the dispatch   *)
(* cycle of the read loop (JCmd).                                          *)
(*                                                                         *)
(* Text is modelled as a sequence of one-character strings, so that the    *)
(* string operations of the code (find, split, strip, replace, startswith, *)
(* int) are computed and not assumed.  Python values are tagged records:   *)
(*   [t |-> "none"], [t |-> "str", v |-> text], [t |-> "int", v |-> n],    *)
(*   [t |-> "list", v |-> <<values>>], [t |-> "dict", v |-> items] and     *)
(*   [t |-> "node", v |-> items, doc, eoc, func, shell, method, subtree,   *)
(*    complete, args] for a JNode.                                         *)
(* A dict keeps its insertion order: items is a sequence of <<key, value>>.*)
(***************************************************************************)
EXTENDS Integers, Sequences, FiniteSets, TLC

(***************************************************************************)
(* Text: Python str operations over sequences of characters (0-based       *)
(* indexes, as in the code).                                               *)
(***************************************************************************)
Min(a, b) == IF a < b THEN a ELSE b

Max(a, b) == IF a > b THEN a ELSE b

\* s[i:j]
Slice(s, i, j) == SubSeq(s, Max(i, 0) + 1, Min(j, Len(s)))

\* s[i:]
From(s, i) == Slice(s, i, Len(s))

\* s.startswith(p)
StartsWith(s, p) == Len(p) <= Len(s) /\ SubSeq(s, 1, Len(p)) = p

\* s.find(sub): the lowest 0-based index of sub in s, or -1
Find(s, sub) ==
    LET hits == {i \in 0..(Len(s) - Len(sub)) : SubSeq(s, i + 1, i + Len(sub)) = sub}
    IN  IF hits = {} THEN -1 ELSE CHOOSE i \in hits : \A j \in hits : i <= j

\* s.replace(old, new): every non-overlapping occurrence, left to right
RECURSIVE Replace(_, _, _)
Replace(s, old, new) ==
    LET at == Find(s, old)
    IN  IF old = <<>>
        THEN IF s = <<>> THEN new ELSE new \o <<Head(s)>> \o Replace(Tail(s), old, new)
        ELSE IF at < 0 THEN s
        ELSE Slice(s, 0, at) \o new \o Replace(From(s, at + Len(old)), old, new)

\* s.split(sep) for a one-character separator
RECURSIVE Split(_, _)
Split(s, sep) ==
    LET at == Find(s, <<sep>>)
    IN  IF at < 0 THEN <<s>>
        ELSE <<Slice(s, 0, at)>> \o Split(From(s, at + 1), sep)

\* s.lstrip(chars) and s.rstrip(chars), chars a set of characters
RECURSIVE LStrip(_, _)
LStrip(s, chars) ==
    IF s # <<>> /\ Head(s) \in chars THEN LStrip(Tail(s), chars) ELSE s

RECURSIVE RStrip(_, _)
RStrip(s, chars) ==
    IF s # <<>> /\ s[Len(s)] \in chars THEN RStrip(SubSeq(s, 1, Len(s) - 1), chars) ELSE s

\* s.strip(chars)
Strip(s, chars) == RStrip(LStrip(s, chars), chars)

\* sep.join(parts)
RECURSIVE Join(_, _)
Join(parts, sep) ==
    IF parts = <<>> THEN <<>>
    ELSE IF Len(parts) = 1 THEN parts[1]
    ELSE parts[1] \o sep \o Join(Tail(parts), sep)

Digits == <<"0", "1", "2", "3", "4", "5", "6", "7", "8", "9">>

DigitSet == {Digits[i] : i \in 1..Len(Digits)}

DigitValue(c) == (CHOOSE i \in 1..Len(Digits) : Digits[i] = c) - 1

RECURSIVE NatOf(_)
NatOf(ds) ==
    IF ds = <<>> THEN 0 ELSE NatOf(SubSeq(ds, 1, Len(ds) - 1)) * Len(Digits) + DigitValue(ds[Len(ds)])

\* int(s) accepts surrounding blanks, one optional sign and decimal digits:
\* body is the text without the blanks
IntUnsigned(body) ==
    IF body # <<>> /\ Head(body) \in {"-", "+"} THEN Tail(body) ELSE body

IsDigits(u) == u # <<>> /\ \A i \in 1..Len(u) : u[i] \in DigitSet

IsIntText(s) == IsDigits(IntUnsigned(Strip(s, {" "})))

SignedNat(body, n) == IF Head(body) = "-" THEN 0 - n ELSE n

IntOfText(s) == SignedNat(Strip(s, {" "}), NatOf(IntUnsigned(Strip(s, {" "}))))

\* str(n) of an integer
RECURSIVE NatText(_)
NatText(n) ==
    IF n < Len(Digits) THEN <<Digits[n + 1]>>
    ELSE NatText(n \div Len(Digits)) \o <<Digits[(n % Len(Digits)) + 1]>>

IntText(n) == IF n < 0 THEN <<"-">> \o NatText(0 - n) ELSE NatText(n)

(***************************************************************************)
(* The module constants of src/jcmd.py, as text.                           *)
(***************************************************************************)
CMD == <<"c", "m", "d">>

ARGS == <<"a", "r", "g", "s">>

HELP == <<"h", "e", "l", "p">>

NO_HELP == <<"n", "o", " ", "h", "e", "l", "p">>

LIST == <<"l", "i", "s", "t">>

FUNC == <<"f", "u", "n", "c">>

METHOD == <<"m", "e", "t", "h", "o", "d">>

SHELL == <<"s", "h", "e", "l", "l">>

SUBTREE == <<"s", "u", "b", "t", "r", "e", "e">>

EXEC_SHELL == <<"!">>

BRIEF_HELP == <<"?">>

EOF == <<"E", "O", "F">>

COMPLETE == <<"c", "o", "m", "p", "l", "e", "t", "e">>

COMPLETE_IGNORES == {EXEC_SHELL, BRIEF_HELP, EOF}

(***************************************************************************)
(* Python values.                                                          *)
(***************************************************************************)
PyNone == [t |-> "none"]

PyStr(s) == [t |-> "str", v |-> s]

PyInt(n) == [t |-> "int", v |-> n]

PyList(l) == [t |-> "list", v |-> l]

PyDict(items) == [t |-> "dict", v |-> items]

\* isinstance(x, dict): a plain dict or a JNode
IsMapping(x) == x.t \in {"dict", "node"}

\* bool(x)
Truthy(x) ==
    CASE x.t = "none" -> FALSE
      [] x.t = "int" -> x.v # 0
      [] OTHER -> x.v # <<>>

\* isinstance(x, list)
IsList(x) == x.t = "list"

(***************************************************************************)
(* dict operations on an ordered sequence of <<key, value>> items.         *)
(***************************************************************************)
Keys(items) == [i \in 1..Len(items) |-> items[i][1]]

\* key in d
Has(items, k) == \E i \in 1..Len(items) : items[i][1] = k

\* d[key], for a key that is present
Get(items, k) == items[CHOOSE i \in 1..Len(items) : items[i][1] = k][2]

\* d[key] = val: a present key keeps its place, a new key goes last
Put(items, k, val) ==
    IF Has(items, k)
    THEN [i \in 1..Len(items) |-> IF items[i][1] = k THEN <<k, val>> ELSE items[i]]
    ELSE Append(items, <<k, val>>)

\* del d[key]
Del(items, k) == SelectSeq(items, LAMBDA kv : kv[1] # k)

\* d.update(other)
RECURSIVE Update(_, _)
\* an update that keeps nothing of what the mapping held
UpdateReplacing(items, other) == other

Update(items, other) ==
    IF other = <<>> THEN items
    ELSE Update(Put(items, other[1][1], other[1][2]), Tail(other))

\* d.get(key): None when the key is absent
GetOrNone(items, k) == IF Has(items, k) THEN Get(items, k) ELSE PyNone

(***************************************************************************)
(* JNode: the command tree node.                                           *)
(***************************************************************************)
RECURSIVE JNodeInit(_)

\* JNode.update_args: an argument whose spec is not a mapping becomes
\* JNode({"help": value})
NodeUpdateArgs(args) ==
    [i \in 1..Len(args) |->
        <<args[i][1],
          IF IsMapping(args[i][2]) THEN args[i][2]
          ELSE JNodeInit(<<<<HELP, args[i][2]>>>>)>>]

\* JNode.__init__(dic) for the items of dic.  The keys of the cmd mapping are
\* set as attributes (setattr): func, shell, method, subtree and complete
\* are the ones the engine reads; any other tag sets an attribute nobody
\* reads.  args holds the items of self.args (the attribute exists only
\* when eoc).
JNodeInit(items) ==
    LET doc   == IF Has(items, HELP) THEN Get(items, HELP) ELSE PyStr(NO_HELP)
        noh   == Del(items, HELP)
        eoc   == Has(noh, CMD)
        cmd   == IF eoc THEN Get(noh, CMD).v ELSE <<>>
        noc   == Del(noh, CMD)
        hasa  == eoc /\ Has(noc, ARGS)
        args  == IF hasa THEN Get(noc, ARGS).v ELSE <<>>
        rest  == IF hasa THEN Del(noc, ARGS) ELSE noc
    IN  [t |-> "node", v |-> rest, doc |-> doc, eoc |-> eoc,
         func |-> GetOrNone(cmd, FUNC), shell |-> GetOrNone(cmd, SHELL),
         method |-> GetOrNone(cmd, METHOD), subtree |-> GetOrNone(cmd, SUBTREE),
         complete |-> GetOrNone(cmd, COMPLETE),
         args |-> IF eoc THEN NodeUpdateArgs(args) ELSE <<>>]

\* JNode()
EmptyNode == JNodeInit(<<>>)

\* json.dumps: a JSON document is represented by its parse tree; a JNode is
\* written as the mapping of its items (its attributes are not items)
RECURSIVE JsonDumps(_)
JsonDumps(x) ==
    CASE IsMapping(x) -> PyDict([i \in 1..Len(x.v) |-> <<x.v[i][1], JsonDumps(x.v[i][2])>>])
      [] IsList(x) -> PyList([i \in 1..Len(x.v) |-> JsonDumps(x.v[i])])
      [] OTHER -> x

\* json.loads(jdata, object_hook=hooker): every mapping of the document,
\* innermost first, becomes JNode(mapping)
RECURSIVE JsonLoads(_)
JsonLoads(doc) ==
    CASE IsMapping(doc) -> JNodeInit([i \in 1..Len(doc.v) |-> <<doc.v[i][1], JsonLoads(doc.v[i][2])>>])
      [] IsList(doc) -> PyList([i \in 1..Len(doc.v) |-> JsonLoads(doc.v[i])])
      [] OTHER -> doc

\* JNode.load_from_json: self.update(loaded); the attributes of self stay
LoadFromJson(node, jdata) == [node EXCEPT !.v = Update(node.v, JsonLoads(jdata).v)]

\* JNode.load_from_dict
LoadFromDict(node, dic) == LoadFromJson(node, JsonDumps(dic))

\* JNode.find: the loop of the code, one word per level; index counts the
\* words consumed
RECURSIVE FindLoop(_, _, _, _, _)
\* a lookup that answers the best match whether it is asked to or not
FindLoopAlwaysBest(cnode, jnodes, i, index, bestmatch) ==
    IF i > Len(jnodes) THEN <<index, cnode>>
    ELSE IF Has(cnode.v, jnodes[i])
         THEN FindLoop(Get(cnode.v, jnodes[i]), jnodes, i + 1, i, bestmatch)
         ELSE <<index, cnode>>

FindLoop(cnode, jnodes, i, index, bestmatch) ==
    IF i > Len(jnodes) THEN <<index, cnode>>
    ELSE IF Has(cnode.v, jnodes[i])
         THEN FindLoop(Get(cnode.v, jnodes[i]), jnodes, i + 1, i, bestmatch)
         ELSE IF bestmatch THEN <<index, cnode>> ELSE <<index, EmptyNode>>

JNodeFind(node, jnodes, bestmatch) == FindLoop(node, jnodes, 1, 0, bestmatch)

(***************************************************************************)
(* Exceptions and the outcome of a call: [ok |-> TRUE, ...] or             *)
(* [ok |-> FALSE, exc |-> exception].  An exception keeps its type, its    *)
(* message, the argument names among its args and the offending data.      *)
(***************************************************************************)
Exc(type, msg, names, data) == [type |-> type, msg |-> msg, names |-> names, data |-> data]

Raise(exc) == [ok |-> FALSE, exc |-> exc]

KeyError(key) == Exc("KeyError", "", <<key>>, PyNone)

(***************************************************************************)
(* The line parser.                                                        *)
(***************************************************************************)
ShlexWhitespace == {" ", "\t", "\r", "\n"}

ShlexQuotes == {"'", "\""}

ShlexEscape == {"\\"}

ShlexEscapedQuotes == {"\""}

\* shlex.split(line): POSIX rules, split on whitespace only, no comments.
\* state is " " between tokens, "a" inside a word, the quote character
\* inside quotes and the escape character after a backslash.
RECURSIVE ShlexLoop(_, _, _, _, _, _, _)
ShlexLoop(s, i, state, token, quoted, escapedstate, tokens) ==
    IF i > Len(s)
    THEN CASE state \in ShlexQuotes ->
                Raise(Exc("ValueError", "No closing quotation", <<>>, PyNone))
           [] state \in ShlexEscape ->
                Raise(Exc("ValueError", "No escaped character", <<>>, PyNone))
           [] OTHER ->
                [ok |-> TRUE,
                 words |-> IF token # <<>> \/ quoted THEN Append(tokens, token) ELSE tokens]
    ELSE LET c == s[i] IN
         CASE state = " " ->
                IF c \in ShlexWhitespace
                THEN ShlexLoop(s, i + 1, " ", <<>>, FALSE, " ", tokens)
                ELSE IF c \in ShlexEscape
                THEN ShlexLoop(s, i + 1, c, <<>>, FALSE, "a", tokens)
                ELSE IF c \in ShlexQuotes
                THEN ShlexLoop(s, i + 1, c, <<>>, FALSE, " ", tokens)
                ELSE ShlexLoop(s, i + 1, "a", <<c>>, FALSE, " ", tokens)
           [] state \in ShlexQuotes ->
                IF c = state
                THEN ShlexLoop(s, i + 1, "a", token, TRUE, escapedstate, tokens)
                ELSE IF c \in ShlexEscape /\ state \in ShlexEscapedQuotes
                THEN ShlexLoop(s, i + 1, c, token, TRUE, state, tokens)
                ELSE ShlexLoop(s, i + 1, state, Append(token, c), TRUE, escapedstate, tokens)
           [] state \in ShlexEscape ->
                ShlexLoop(s, i + 1, escapedstate,
                          (IF escapedstate \in ShlexQuotes /\ c # state /\ c # escapedstate
                           THEN Append(token, state) ELSE token) \o <<c>>,
                          quoted, escapedstate, tokens)
           [] OTHER ->
                IF c \in ShlexWhitespace
                THEN IF token # <<>> \/ quoted
                     THEN ShlexLoop(s, i + 1, " ", <<>>, FALSE, " ", Append(tokens, token))
                     ELSE ShlexLoop(s, i + 1, " ", token, quoted, escapedstate, tokens)
                ELSE IF c \in ShlexQuotes
                THEN ShlexLoop(s, i + 1, c, token, quoted, escapedstate, tokens)
                ELSE IF c \in ShlexEscape
                THEN ShlexLoop(s, i + 1, c, token, quoted, "a", tokens)
                ELSE ShlexLoop(s, i + 1, "a", Append(token, c), quoted, escapedstate, tokens)

ShlexSplit(line) == ShlexLoop(line, 1, " ", <<>>, FALSE, " ", <<>>)

\* the loop of _parseline over the words: a word holding "=" gives an
\* argument (a list when its value holds a comma) and keeps its key as the
\* word
RECURSIVE ParseWords(_, _, _)
ParseWords(words, i, args) ==
    IF i > Len(words) THEN [words |-> words, args |-> args]
    ELSE LET word    == words[i]
             spliter == Find(word, <<"=">>)
             key     == Slice(word, 0, spliter)
             value   == From(word, spliter + 1)
             vlist   == Split(value, ",")
         IN  IF spliter >= 0
             THEN ParseWords([words EXCEPT ![i] = key], i + 1,
                             Put(args, key,
                                 IF Len(vlist) > 1
                                 THEN PyList([j \in 1..Len(vlist) |-> PyStr(vlist[j])])
                                 ELSE PyStr(value)))
             ELSE ParseWords(words, i + 1, args)

\* the end of _parseline: the incomplete token is the last word when the
\* cursor range is not empty or the line ends with "=" or ","
ParseResult(line, begidx, endidx, words, args) ==
    IF words = <<>> /\ (begidx # endidx \/ (line # <<>> /\ line[Len(line)] \in {"=", ","}))
    THEN Raise(Exc("IndexError", "list index out of range", <<>>, PyNone))
    ELSE [ok |-> TRUE, words |-> words, args |-> args,
          incomplete |->
              IF line # <<>> /\ line[Len(line)] \in {"=", ","} THEN words[Len(words)]
              ELSE IF begidx # endidx THEN words[Len(words)]
              ELSE <<>>]

ParseParsed(line, begidx, endidx, parsed) ==
    ParseResult(line, begidx, endidx, parsed.words, parsed.args)

ParseSplit(line, begidx, endidx, split) ==
    IF ~split.ok THEN split
    ELSE ParseParsed(line, begidx, endidx, ParseWords(split.words, 1, <<>>))

ParseCut(line, begidx, endidx) == ParseSplit(line, begidx, endidx, ShlexSplit(line))

\* JCmd._parseline(line, begidx, endidx): without a cursor range the range
\* is the empty one at the end of the line
ParseLine(line, begidx, endidx) ==
    IF begidx = -1 \/ endidx = -1
    THEN ParseCut(line, Len(line), Len(line))
    ELSE ParseCut(Slice(line, 0, endidx), begidx, endidx)

(***************************************************************************)
(* The argument resolver.                                                  *)
(***************************************************************************)
RangeKey == <<"r", "a", "n", "g", "e">>

EnumKey == <<"e", "n", "u", "m">>

DefaultKey == <<"d", "e", "f", "a", "u", "l", "t">>

TypeKey == <<"t", "y", "p", "e">>

\* int(x) for a parsed value: a text that is no number is a ValueError, a
\* list is a TypeError; neither carries the argument's name
IntOf(x) ==
    CASE x.t = "int" -> [ok |-> TRUE, n |-> x.v]
      [] x.t = "str" ->
            IF IsIntText(x.v) THEN [ok |-> TRUE, n |-> IntOfText(x.v)]
            ELSE Raise(Exc("ValueError", "invalid literal for int() with base 10", <<>>, x))
      [] OTHER -> Raise(Exc("TypeError", "int() argument must be a string or a number", <<>>, x))

\* a range check whose upper bound is exclusive
RangeVerdictExclusive(argname, data, lo, v, hi) ==
    IF ~lo.ok THEN lo
    ELSE IF ~v.ok THEN v
    ELSE IF lo.n > v.n THEN Raise(Exc("ValueError", "out of range:", <<argname>>, data))
    ELSE IF ~hi.ok THEN hi
    ELSE IF v.n >= hi.n THEN Raise(Exc("ValueError", "out of range:", <<argname>>, data))
    ELSE [ok |-> TRUE]

\* int(r[0]) > int(data) or int(data) > int(r[-1]), in the order Python
\* evaluates it
RangeVerdict(argname, data, lo, v, hi) ==
    IF ~lo.ok THEN lo
    ELSE IF ~v.ok THEN v
    ELSE IF lo.n > v.n THEN Raise(Exc("ValueError", "out of range:", <<argname>>, data))
    ELSE IF ~hi.ok THEN hi
    ELSE IF v.n > hi.n THEN Raise(Exc("ValueError", "out of range:", <<argname>>, data))
    ELSE [ok |-> TRUE]

RangeSplit(argname, data, r) ==
    IF Len(r) # 2 THEN Raise(Exc("TypeError", "invalid range type", <<argname>>, PyNone))
    ELSE RangeVerdict(argname, data, IntOf(PyStr(r[1])), IntOf(data), IntOf(PyStr(r[Len(r)])))

\* JCmd.check_range(argname, data, data_range)
check_range(argname, data, data_range) ==
    RangeSplit(argname, data, Split(Strip(data_range.v, {"<", ">"}), "-"))

\* JCmd.check_enum(argname, data, data_enum)
check_enum(argname, data, data_enum) ==
    IF ~IsList(data_enum) THEN Raise(Exc("TypeError", "invalid enum type", <<argname>>, PyNone))
    ELSE IF \A i \in 1..Len(data_enum.v) : data_enum.v[i] # data
    THEN Raise(Exc("ValueError", "out of value:", <<argname>>, data))
    ELSE [ok |-> TRUE]

\* the enum check, run when the range check rc passed
EnumAfterRange(key, data, e, rc) ==
    IF ~rc.ok THEN rc
    ELSE IF Truthy(e) THEN check_enum(key, data, e)
    ELSE [ok |-> TRUE]

RangeIfSet(key, data, r) == IF Truthy(r) THEN check_range(key, data, r) ELSE [ok |-> TRUE]

\* the body of the loop of update_args for one declared argument that the
\* input supplies: the range check, then the enum check
CheckSupplied(key, data, value) ==
    EnumAfterRange(key, data, GetOrNone(value.v, EnumKey),
                   RangeIfSet(key, data, GetOrNone(value.v, RangeKey)))

\* JCmd.update_args(args, cmd_args): the declared arguments in declared
\* order; the first failure ends the loop
RECURSIVE UpdateArgsLoop(_, _, _)

\* a resolver that passes over an argument that is missing without a default
UpdateArgsStepLenient(args, cmd_args, i, key, value, chk) ==
    IF Has(args, key)
    THEN IF chk.ok THEN UpdateArgsLoop(args, cmd_args, i + 1) ELSE chk
    ELSE IF Has(value.v, DefaultKey)
    THEN UpdateArgsLoop(Put(args, key, Get(value.v, DefaultKey)), cmd_args, i + 1)
    ELSE UpdateArgsLoop(args, cmd_args, i + 1)

UpdateArgsStep(args, cmd_args, i, key, value, chk) ==
    IF Has(args, key)
    THEN IF chk.ok THEN UpdateArgsLoop(args, cmd_args, i + 1) ELSE chk
    ELSE IF Has(value.v, DefaultKey)
    THEN UpdateArgsLoop(Put(args, key, Get(value.v, DefaultKey)), cmd_args, i + 1)
    ELSE Raise(KeyError(key))

UpdateArgsLoop(args, cmd_args, i) ==
    IF i > Len(cmd_args) THEN [ok |-> TRUE, args |-> args]
    ELSE UpdateArgsStep(args, cmd_args, i, cmd_args[i][1], cmd_args[i][2],
                        CheckSupplied(cmd_args[i][1], Get(args, cmd_args[i][1]), cmd_args[i][2]))

\* a resolver that hands the supplied arguments on as they are
UpdateArgsAsSupplied(args, cmd_args) == [ok |-> TRUE, args |-> args]

update_args(args, cmd_args) == UpdateArgsLoop(args, cmd_args, 1)

(***************************************************************************)
(* Shell templates.                                                        *)
(***************************************************************************)
\* str(data): a text as it is, a number in decimal, a list as Python
\* prints it
RECURSIVE TextOf(_)
TextOf(data) ==
    CASE data.t = "str" -> data.v
      [] data.t = "int" -> IntText(data.v)
      [] data.t = "list" ->
            <<"[">> \o Join([i \in 1..Len(data.v) |->
                                IF data.v[i].t = "str"
                                THEN <<"'">> \o data.v[i].v \o <<"'">>
                                ELSE TextOf(data.v[i])],
                            <<",", " ">>) \o <<"]">>
      [] OTHER -> <<"N", "o", "n", "e">>

\* the while loop of JCmd.format: origin is cut after each placeholder,
\* updated has the placeholder's text replaced wherever it occurs
RECURSIVE FormatLoop(_, _, _)

FormatStep(updated, origin, args, front, tail) ==
    IF front < 0 \/ tail < 0 THEN [ok |-> TRUE, text |-> updated]
    ELSE IF ~Has(args, Slice(origin, front + 2, tail))
    THEN Raise(KeyError(Slice(origin, front + 2, tail)))
    ELSE FormatLoop(Replace(updated, Slice(origin, front, tail + 2),
                            TextOf(Get(args, Slice(origin, front + 2, tail)))),
                    From(origin, tail + 2), args)

FormatLoop(updated, origin, args) ==
    FormatStep(updated, origin, args, Find(origin, <<"{", "{">>), Find(origin, <<"}", "}">>))

\* JCmd.format(origin, args)
format(origin, args) == FormatLoop(origin, origin, args)

(***************************************************************************)
(* The engine: construction and load.                                      *)
(***************************************************************************)
do_eof == <<"d", "o", "_", "e", "o", "f">>

do_help == <<"d", "o", "_", "h", "e", "l", "p">>

do_help_briefly == <<"d", "o", "_", "h", "e", "l", "p", "_", "b", "r", "i", "e", "f", "l", "y">>

complete_help == <<"c", "o", "m", "p", "l", "e", "t", "e", "_", "h", "e", "l", "p">>

my_method == <<"m", "y", "_", "m", "e", "t", "h", "o", "d">>

quit == <<"q", "u", "i", "t">>

exit == <<"e", "x", "i", "t">>

shell_cmd == <<"s", "h", "e", "l", "l", "-", "c", "m", "d">>

\* the sources a load can name: nothing, a dictionary, a JSON text, or a
\* file that is found (and holds a JSON text) or is not.  A JSON text that
\* does not parse is the document [t |-> "bad"].
NoSource == [kind |-> "none", doc |-> PyNone]

FromDict(dic) == [kind |-> "cmddict", doc |-> dic]

FromJson(jdata) == [kind |-> "cmdjson", doc |-> jdata]

FromFile(jdata) == [kind |-> "cmdfile", doc |-> jdata]

MissingFile == [kind |-> "nofile", doc |-> PyNone]

BadJson == [t |-> "bad"]

\* JCmd.load(cmdfile, cmddict, cmdjson) on the command tree: the new tree,
\* or the exception of the loader
load(tree, src) ==
    CASE src.kind = "cmddict" /\ Truthy(src.doc) ->
            [ok |-> TRUE, tree |-> LoadFromDict(tree, src.doc)]
      [] src.kind = "nofile" ->
            Raise(Exc("FileNotFoundError", "No such file or directory", <<>>, PyNone))
      [] src.kind \in {"cmdfile", "cmdjson"} /\ src.doc = BadJson ->
            Raise(Exc("JSONDecodeError", "Expecting value", <<>>, PyNone))
      [] src.kind \in {"cmdfile", "cmdjson"} ->
            [ok |-> TRUE, tree |-> LoadFromJson(tree, src.doc)]
      [] OTHER -> [ok |-> TRUE, tree |-> tree]

\* the built-in commands of JCmd.__init__, in the order they are set
BuiltinEOF ==
    JNodeInit(<< <<HELP, PyStr(<<"q", "u", "i", "t", " ", "(", "c", "t", "r", "l", "+", "d", ")">>)>>,
                 <<CMD, PyDict(<< <<METHOD, PyStr(do_eof)>> >>)>> >>)

BuiltinShell ==
    JNodeInit(<< <<HELP, PyStr(<<"e", "x", "e", "c", "u", "t", "e", " ", "a", " ", "s", "h", "e", "l", "l", " ", "c", "o", "m", "m", "a", "n", "d">>)>>,
                 <<CMD, PyDict(<< <<SHELL, PyStr(<<"{", "{">> \o shell_cmd \o <<"}", "}">>)>> >>)>>,
                 <<ARGS, PyDict(<< <<shell_cmd, PyStr(<<"e", "x", "e", "c", "u", "t", "a", "b", "l", "e", " ", "s", "h", "e", "l", "l", " ", "c", "o", "m", "m", "a", "n", "d">>)>> >>)>> >>)

BuiltinHelp ==
    JNodeInit(<< <<HELP, PyStr(<<"s", "h", "o", "w", " ", "a", " ", "c", "o", "m", "m", "a", "n", "d", " ", "h", "e", "l", "p">>)>>,
                 <<CMD, PyDict(<< <<METHOD, PyStr(do_help)>>,
                                  <<COMPLETE, PyStr(complete_help)>> >>)>> >>)

BuiltinBrief ==
    JNodeInit(<< <<HELP, PyStr(<<"s", "h", "o", "w", " ", "a", "l", "l", " ", "t", "h", "e", " ", "c", "o", "m", "m", "a", "n", "d", "s", "'", " ", "h", "e", "l", "p", " ", "b", "r", "i", "e", "f", "l", "y">>)>>,
                 <<CMD, PyDict(<< <<METHOD, PyStr(do_help_briefly)>>,
                                  <<COMPLETE, PyStr(complete_help)>> >>)>> >>)

WithBuiltins(tree) ==
    [tree EXCEPT !.v =
        Put(Put(Put(Put(Put(Put(Put(tree.v, EOF, BuiltinEOF), quit, BuiltinEOF), exit, BuiltinEOF),
                        EXEC_SHELL, BuiltinShell), HELP, BuiltinHelp),
                BRIEF_HELP, BuiltinBrief), LIST, BuiltinBrief)]

\* the end of JCmd.__init__: the built-ins are set on the tree the first load
\* left, and the class table cmds is loaded after them
InitTables(first, cmds) ==
    IF Truthy(cmds)
    THEN LoadFromDict(WithBuiltins(IF first.ok THEN first.tree ELSE EmptyNode), cmds)
    ELSE WithBuiltins(IF first.ok THEN first.tree ELSE EmptyNode)

\* JCmd.__init__(**kargs) of a class whose cmds attribute is cmds: the first
\* load's FileNotFoundError and JSONDecodeError are written and swallowed
JCmdInit(kargs, cmds) == InitTables(load(EmptyNode, kargs), cmds)

(***************************************************************************)
(* The dispatch cycle.                                                     *)
(***************************************************************************)
NoExc == Exc("", "", <<>>, PyNone)

\* one line written to stdout: a fixed prefix, then a text or an exception
Written(prefix, text, exc) == [prefix |-> prefix, text |-> text, exc |-> exc]

NotResolved == [run |-> FALSE, ok |-> FALSE, args |-> <<>>, exc |-> NoExc]

Resolved(r) ==
    [run |-> TRUE, ok |-> r.ok, args |-> IF r.ok THEN r.args ELSE <<>>,
     exc |-> IF r.ok THEN NoExc ELSE r.exc]

\* what one call of onecmd did: the value returned, the end flag after it,
\* the exception that left it (NoExc when it returned), the lines written,
\* the command lines handed to subprocess.check_call, the action branch
\* taken and the attribute called, whether the best-match node was a leaf,
\* and what the resolver answered
Cycle(ret, endflag, raised, out, spawned, action, called, leaf, resolved) ==
    [ret |-> ret, end |-> endflag, raised |-> raised, out |-> out, spawned |-> spawned,
     action |-> action, called |-> called, leaf |-> leaf, resolved |-> resolved]

\* the except clauses of onecmd
Reported(exc) ==
    CASE exc.type = "AttributeError" -> Written("** No method or func: ", <<>>, exc)
      [] exc.type = "KeyError" -> Written("** No argument: ", <<>>, exc)
      [] OTHER -> Written("** Failed: ", <<>>, exc)

\* JCmd.default: the unknown-command line
default(line) == Written("** Unknown cmd: ", line, NoExc)

ActionFailed == Exc("Exception", "the action raised", <<>>, PyNone)

UnexpectedKeyword == Exc("TypeError", "got an unexpected keyword argument", <<>>, PyNone)

\* the func branch: exec of each snippet in turn; a snippet that raises
\* ends the branch
FuncBranch(node, line, args, fails) ==
    IF fails
    THEN Cycle(FALSE, FALSE, NoExc, <<Reported(ActionFailed)>>, <<>>, "func", <<>>, TRUE,
               Resolved([ok |-> TRUE, args |-> args]))
    ELSE Cycle(FALSE, FALSE, NoExc, <<>>, <<>>, "func", <<>>, TRUE,
               Resolved([ok |-> TRUE, args |-> args]))

\* [self.format(shell, args) for shell in slist]: the texts, or the first
\* exception
RECURSIVE FormatAll(_, _, _)

FormatNext(slist, args, done, one) ==
    IF one.ok THEN FormatAll(Tail(slist), args, Append(done, one.text)) ELSE one

FormatAll(slist, args, done) ==
    IF slist = <<>> THEN [ok |-> TRUE, list |-> done]
    ELSE FormatNext(slist, args, done, format(Head(slist).v, args))

\* the end of the shell branch: the joined text is written and run as one
\* subprocess; a non-zero exit raises CalledProcessError
ShellRun(cmd_str, fails, res) ==
    IF fails
    THEN Cycle(FALSE, FALSE, NoExc,
               <<Written("  shell: ", cmd_str, NoExc),
                 Reported(Exc("CalledProcessError", "returned non-zero exit status",
                              <<>>, PyNone))>>,
               <<cmd_str>>, "shell", <<>>, TRUE, res)
    ELSE Cycle(FALSE, FALSE, NoExc, <<Written("  shell: ", cmd_str, NoExc)>>, <<cmd_str>>,
               "shell", <<>>, TRUE, res)

ShellJoin(cmd_list, fails, res) ==
    IF ~cmd_list.ok
    THEN Cycle(FALSE, FALSE, NoExc, <<Reported(cmd_list.exc)>>, <<>>, "shell", <<>>, TRUE, res)
    ELSE ShellRun(Join(cmd_list.list, <<" ", "&", "&", " ">>), fails, res)

\* the shell branch: a single template is a list of one; the templates are
\* filled in order and joined by " && "
ShellBranch(node, line, args, fails) ==
    ShellJoin(FormatAll(IF IsList(node.shell) THEN node.shell.v ELSE <<node.shell>>, args, <<>>),
              fails, Resolved([ok |-> TRUE, args |-> args]))

\* the call of the method branch.  methods are the methods of the instance's
\* class; do_eof and do_help take no keyword.
MethodCall(name, line, args, fails, methods, res) ==
    CASE name \notin methods ->
            Cycle(FALSE, FALSE, NoExc, <<default(line)>>, <<>>, "method", <<>>, TRUE, res)
      [] name \in {do_eof, do_help} /\ args # <<>> ->
            Cycle(FALSE, FALSE, NoExc, <<Reported(UnexpectedKeyword)>>, <<>>, "method", <<>>,
                  TRUE, res)
      [] name = do_eof ->
            Cycle(TRUE, TRUE, NoExc, <<Written("", <<"\n">>, NoExc)>>, <<>>, "method", name,
                  TRUE, res)
      [] fails ->
            Cycle(FALSE, FALSE, NoExc, <<Reported(ActionFailed)>>, <<>>, "method", name,
                  TRUE, res)
      [] OTHER ->
            Cycle(FALSE, FALSE, NoExc, <<>>, <<>>, "method", name, TRUE, res)

\* the method branch: getattr(self, cmd_node.method, self.default) called
\* with the resolved arguments as keywords
MethodBranch(node, line, args, fails, methods) ==
    MethodCall(node.method.v, line, args, fails, methods,
               Resolved([ok |-> TRUE, args |-> args]))

FileKey == <<"f", "i", "l", "e">>

NoGet == Exc("AttributeError", "object has no attribute 'get'", <<>>, PyNone)

\* the subtree branch up to the call of cmdloop on the new engine:
\* subtree.get of a value that is no mapping is an AttributeError, a
\* mapping without "file" a KeyError, both reported by the except
\* clauses.  The action is "subtree" when the new engine is constructed,
\* called being the file it is constructed from; what the nested loop does
\* and how onecmd ends after it is the read loop's part.
SubtreeBranch(node, line, res) ==
    IF ~IsMapping(node.subtree)
    THEN Cycle(FALSE, FALSE, NoExc, <<Reported(NoGet)>>, <<>>, "none", <<>>, TRUE, res)
    ELSE IF ~Has(node.subtree.v, FileKey)
    THEN Cycle(FALSE, FALSE, NoExc, <<Reported(KeyError(FileKey))>>, <<>>, "none", <<>>,
               TRUE, res)
    ELSE Cycle(FALSE, FALSE, NoExc, <<>>, <<>>, "subtree", Get(node.subtree.v, FileKey).v,
               TRUE, res)

\* the actions of a leaf whose arguments the resolver answered with r: the
\* first of func, shell, method, subtree that is set
LeafResolved(node, line, fails, methods, r) ==
    IF ~r.ok
    THEN Cycle(FALSE, FALSE, NoExc, <<Reported(r.exc)>>, <<>>, "none", <<>>, TRUE, Resolved(r))
    ELSE IF Truthy(node.func) THEN FuncBranch(node, line, r.args, fails)
    ELSE IF Truthy(node.shell) THEN ShellBranch(node, line, r.args, fails)
    ELSE IF Truthy(node.method) THEN MethodBranch(node, line, r.args, fails, methods)
    ELSE IF Truthy(node.subtree) THEN SubtreeBranch(node, line, Resolved(r))
    ELSE Cycle(FALSE, FALSE, NoExc, <<>>, <<>>, "none", <<>>, TRUE, Resolved(r))

\* the try block of onecmd for a leaf: self.end = False, the resolver, then
\* the action
LeafBranch(node, line, args, fails, methods) ==
    LeafResolved(node, line, fails, methods, update_args(args, node.args))

\* onecmd after the best-match lookup: a node that is no leaf is an unknown
\* command and leaves the end flag as it was
OnBestMatch(cmd_node, endflag, line, args, fails, methods) ==
    IF ~cmd_node.eoc
    THEN Cycle(endflag, endflag, NoExc, <<default(line)>>, <<>>, "none", <<>>, FALSE,
               NotResolved)
    ELSE LeafBranch(cmd_node, line, args, fails, methods)

\* onecmd after _parseline: the parser's exception leaves onecmd
OnParsed(tree, endflag, line, fails, methods, parsed) ==
    IF ~parsed.ok
    THEN Cycle(endflag, endflag, parsed.exc, <<>>, <<>>, "none", <<>>, FALSE, NotResolved)
    ELSE OnBestMatch(JNodeFind(tree, parsed.words, TRUE)[2], endflag, line, parsed.args,
                     fails, methods)

\* JCmd.onecmd(line) on an engine whose tree is tree and whose end flag is
\* endflag; fails tells whether the external action (subprocess, snippet,
\* method body) fails
onecmd(tree, endflag, line, fails, methods) ==
    IF Strip(line, ShlexWhitespace) = <<>>
    THEN Cycle(endflag, endflag, NoExc, <<>>, <<>>, "none", <<>>, FALSE, NotResolved)
    ELSE OnParsed(tree, endflag, line, fails, methods, ParseLine(line, -1, -1))

(***************************************************************************)
(* The completion engine.  A candidate list is PyList of texts; the value  *)
(* None is PyNone.                                                         *)
(***************************************************************************)
\* the keys c of a mapping for which c.startswith(cur_word), c is not one of
\* COMPLETE_IGNORES and c is not in ignores, each followed by tail
Suffixed(items, tail) == [i \in 1..Len(items) |-> items[i][1] \o tail]

\* a candidate filter that forgets which names are to be left out
NextWordForgetful(items, cur_word, ignores, tail) ==
    LET Offered(item) ==
            /\ StartsWith(item[1], cur_word)
            /\ item[1] \notin COMPLETE_IGNORES
    IN  Suffixed(SelectSeq(items, Offered), tail)

\* a candidate filter that does not look at the word typed so far
NextWordUnfiltered(items, cur_word, ignores, tail) ==
    LET Offered(item) ==
            /\ item[1] \notin COMPLETE_IGNORES
            /\ item[1] \notin ignores
    IN  Suffixed(SelectSeq(items, Offered), tail)

\* JCmd._next_word(cur_node, cur_word, ignores, tail)
NextWord(items, cur_word, ignores, tail) ==
    LET Offered(item) ==
            /\ StartsWith(item[1], cur_word)
            /\ item[1] \notin COMPLETE_IGNORES
            /\ item[1] \notin ignores
    IN  Suffixed(SelectSeq(items, Offered), tail)

\* [each for each in argenum if each.startswith(cur_data)] for what argenum
\* can be: a list (a member that is no text has no startswith, and the
\* exception answers [cur_data]), a mapping (its keys), a text (its
\* characters), or a value without len().  An empty argenum ends the
\* function without a return statement.
NextDataEnum(argenum, cur_data) ==
    CASE argenum.t \in {"none", "int"} -> PyList(<<cur_data>>)
      [] argenum.v = <<>> -> PyNone
      [] argenum.t = "str" ->
            PyList(SelectSeq([i \in 1..Len(argenum.v) |-> <<argenum.v[i]>>],
                             LAMBDA c : StartsWith(c, cur_data)))
      [] argenum.t \in {"dict", "node"} ->
            PyList(Suffixed(SelectSeq(argenum.v, LAMBDA e : StartsWith(e[1], cur_data)), <<>>))
      [] \E i \in 1..Len(argenum.v) : argenum.v[i].t # "str" -> PyList(<<cur_data>>)
      [] OTHER ->
            PyList(Suffixed(SelectSeq([i \in 1..Len(argenum.v) |-> <<argenum.v[i].v>>],
                                      LAMBDA e : StartsWith(e[1], cur_data)), <<>>))

\* the body of _next_data once cur_data is one text.  files are the names
\* glob finds in the working directory.
NextDataOf(spec, cur_data, files) ==
    IF GetOrNone(spec.v, TypeKey) = PyStr(<<"p", "a", "t", "h">>)
    THEN PyList(SelectSeq(files, LAMBDA f : StartsWith(f, cur_data)))
    ELSE NextDataEnum(GetOrNone(spec.v, EnumKey), cur_data)

\* JCmd._next_data(argtree, cur_arg, cur_data): of a list the last element
\* is completed
NextData(argtree, cur_arg, cur_data, files) ==
    NextDataOf(Get(argtree, cur_arg),
               IF IsList(cur_data) THEN cur_data.v[Len(cur_data.v)].v ELSE cur_data.v,
               files)

\* the loop of complete_help: the words of remainder, all but an incomplete
\* last one, are followed from the root as far as they go
RECURSIVE HelpDescend(_, _, _, _)
HelpDescend(cur_node, remainder, count, index) ==
    IF index > count \/ ~Has(cur_node.v, remainder[index])
    THEN [node |-> cur_node, remainder |-> SubSeq(remainder, index, Len(remainder))]
    ELSE HelpDescend(Get(cur_node.v, remainder[index]), remainder, count, index + 1)

\* the end of complete_help: the children of the node reached, help left
\* out, that start with the first word left
HelpCandidates(at) ==
    IF at.remainder = <<>> THEN PyList(NextWord(at.node.v, <<>>, {HELP}, <<" ">>))
    ELSE PyList(NextWord(at.node.v, at.remainder[1], {HELP}, <<" ">>))

\* JCmd.complete_help(remainder, incomplete)
CompleteHelp(tree, remainder, incomplete) ==
    HelpCandidates(HelpDescend(tree, remainder,
                               IF incomplete # <<>> THEN Len(remainder) - 1 ELSE Len(remainder),
                               1))

\* the first loop of _complete_line: the words, all but an incomplete last
\* one, are followed from the root.  A node that names a completion method
\* ends the loop with that method ("hook"); the descriptions drawn name
\* complete_help only, and a node without the attribute goes on.
RECURSIVE Descend(_, _, _, _)

Descended(child, words, incomplete, index) ==
    IF child.complete = PyStr(complete_help)
    THEN [hook |-> TRUE, node |-> child, remainder |-> SubSeq(words, index + 1, Len(words))]
    ELSE Descend(child, words, incomplete, index + 1)

Descend(cur_node, words, incomplete, index) ==
    IF \/ index > Len(words)
       \/ (incomplete # <<>> /\ index = Len(words))
       \/ ~Has(cur_node.v, words[index])
    THEN [hook |-> FALSE, node |-> cur_node, remainder |-> SubSeq(words, index, Len(words))]
    ELSE Descended(Get(cur_node.v, words[index]), words, incomplete, index)

\* the names of the declared arguments of a leaf that start with word and
\* are not in ignores, each followed by "="
ArgNames(cur_node, word, ignores) == NextWord(cur_node.args, word, ignores, <<"=">>)

\* "check args only": the words left are read as argument names.  A word
\* that is no declared argument, or has no value on the line, is completed
\* to the declared names it starts; the name of the incomplete token is
\* completed to values; every other name is added to ignores.
RECURSIVE ArgsOnly(_, _, _, _, _, _, _)
ArgsOnly(cur_node, remainder, incomplete, args, index, ignores, files) ==
    IF index > Len(remainder) THEN PyList(ArgNames(cur_node, <<>>, ignores))
    ELSE IF ~Has(cur_node.args, remainder[index]) \/ ~Has(args, remainder[index])
    THEN PyList(ArgNames(cur_node, remainder[index], ignores))
    ELSE IF incomplete = remainder[index]
    THEN NextData(cur_node.args, remainder[index],
                  IF Truthy(Get(args, remainder[index])) THEN Get(args, remainder[index])
                  ELSE PyStr(<<>>),
                  files)
    ELSE ArgsOnly(cur_node, remainder, incomplete, args, index + 1,
                  ignores \cup {remainder[index]}, files)

\* the children that start with word and, on a leaf, the argument names
\* that start with it
WordsAndArgs(cur_node, word) ==
    NextWord(cur_node.v, word, {}, <<" ">>)
        \o (IF cur_node.eoc THEN ArgNames(cur_node, word, {}) ELSE <<>>)

\* _complete_line after its first loop
Candidates(cur_node, remainder, incomplete, args, files) ==
    IF remainder = <<>> THEN PyList(WordsAndArgs(cur_node, <<>>))
    ELSE IF incomplete # <<>> /\ NextWord(cur_node.v, remainder[1], {}, <<" ">>) # <<>>
    THEN PyList(WordsAndArgs(cur_node, remainder[1]))
    ELSE IF cur_node.eoc
    THEN ArgsOnly(cur_node, remainder, incomplete, args, 1, {}, files)
    ELSE PyList(<<>>)

AfterDescend(tree, at, incomplete, args, files) ==
    IF at.hook THEN CompleteHelp(tree, at.remainder, incomplete)
    ELSE Candidates(at.node, at.remainder, incomplete, args, files)

\* JCmd._complete_line(words, incomplete, args)
CompleteLine(tree, words, incomplete, args, files) ==
    AfterDescend(tree, Descend(tree, words, incomplete, 1), incomplete, args, files)

\* the delimiters of readline after cmdloop has taken - . / ~ ? ! out
CompleterDelims ==
    {" ", "\t", "\n", "`", "@", "#", "$", "%", "^", "&", "*", "(", ")", "=", "+", "[", "{",
     "]", "}", "\\", "|", ";", ":", "'", "\"", ",", "<", ">"}

\* readline.get_begidx() for the cursor at the end of line: the start of the
\* text after the last delimiter
BegIdx(line) ==
    CHOOSE i \in 0..Len(line) :
        /\ i > 0 => line[i] \in CompleterDelims
        /\ \A j \in (i + 1)..Len(line) : line[j] \notin CompleterDelims

\* what complete(text, 0) leaves in completion_matches for the parsed line
Completed(tree, parsed, files) ==
    IF parsed.ok
    THEN [ok |-> TRUE,
          matches |-> CompleteLine(tree, parsed.words, parsed.incomplete, parsed.args, files)]
    ELSE parsed

\* JCmd.complete(text, 0) for the line buffer line, the cursor at its end
Complete(tree, line, files) ==
    Completed(tree, ParseLine(line, BegIdx(line), Len(line)), files)

(***************************************************************************)
(* The words, descriptions and lines the model draws its inputs from.      *)
(***************************************************************************)
w_hello == <<"h", "e", "l", "l", "o">>

w_name == <<"n", "a", "m", "e">>

w_world == <<"w", "o", "r", "l", "d">>

w_xyz == <<"x", "y", "z">>

w_show == <<"s", "h", "o", "w">>

w_version == <<"v", "e", "r", "s", "i", "o", "n">>

w_net == <<"n", "e", "t">>

w_up == <<"u", "p">>

w_argument == <<"a", "r", "g", "u", "m", "e", "n", "t">>

w_madatory_data == <<"m", "a", "d", "a", "t", "o", "r", "y", "-", "d", "a", "t", "a">>

w_optional_data == <<"o", "p", "t", "i", "o", "n", "a", "l", "-", "d", "a", "t", "a">>

w_range_data == <<"r", "a", "n", "g", "e", "-", "d", "a", "t", "a">>

w_enum_data == <<"e", "n", "u", "m", "-", "d", "a", "t", "a">>

w_my_func == <<"m", "y", "-", "f", "u", "n", "c">>

w_first == <<"f", "i", "r", "s", "t">>

w_second == <<"s", "e", "c", "o", "n", "d">>

w_my_method_cmd == <<"m", "y", "-", "m", "e", "t", "h", "o", "d">>

\* the tree of the hello scenario (src/hello_jcmd.py)
HelloTree ==
    PyDict(<<
        <<w_hello, PyDict(<<
            <<HELP, PyStr(<<"h">>)>>,
            <<CMD, PyDict(<<
                <<SHELL, PyStr(<<"e", "c", "h", "o", " ", "H", "E", "L", "L", "O", " ", "{", "{", "n", "a", "m", "e", "}", "}">>)>> >>)>>,
            <<ARGS, PyDict(<<
                <<w_name, PyStr(<<"h", "i">>)>> >>)>> >>)>> >>)

\* the class-level table JcmdEx1.cmds of src/jcmd_ex3.py
Ex3Cmds ==
    PyDict(<<
        <<w_argument, PyDict(<<
            <<HELP, PyStr(<<"m", "e", "t", "h", "o", "d", " ", "c", "m", "d", " ", "e", "x", "a", "m", "p", "l", "e">>)>>,
            <<CMD, PyDict(<<
                <<METHOD, PyStr(my_method)>> >>)>>,
            <<ARGS, PyDict(<<
                <<w_madatory_data, PyDict(<<
                    <<HELP, PyStr(<<"m", "a", "n", "d", "a", "t", "o", "r", "y", " ", "d", "a", "t", "a">>)>> >>)>>,
                <<w_optional_data, PyDict(<<
                    <<HELP, PyStr(<<"o", "p", "t", "i", "o", "n", "a", "l", " ", "d", "a", "t", "a">>)>>,
                    <<DefaultKey, PyStr(<<"n", "o", "-", "o", "p", "t", "i", "o", "n">>)>> >>)>>,
                <<w_range_data, PyDict(<<
                    <<HELP, PyStr(<<"r", "a", "n", "g", "e", " ", "d", "a", "t", "a">>)>>,
                    <<RangeKey, PyStr(<<"<", "1", "0", "-", "1", "0", "0", ">">>)>>,
                    <<DefaultKey, PyInt(10)>> >>)>>,
                <<w_enum_data, PyDict(<<
                    <<HELP, PyStr(<<"e", "n", "u", "m", " ", "d", "a", "t", "a">>)>>,
                    <<EnumKey, PyList(<<PyStr(<<"g", "r", "e", "e", "n">>), PyStr(<<"b", "l", "u", "e">>), PyStr(<<"r", "e", "d">>), PyStr(<<"y", "e", "l", "l", "o", "w">>), PyStr(<<"b", "l", "u", "e", "s", "k", "y">>)>>)>>,
                    <<DefaultKey, PyStr(<<"r", "e", "d">>)>> >>)>> >>)>> >>)>> >>)

\* the table of src/jcmd_ex2.py
Ex2Cmds ==
    PyDict(<<
        <<w_hello, PyDict(<<
            <<HELP, PyStr(<<"s", "h", "e", "l", "l", " ", "c", "m", "d", " ", "e", "x", "a", "m", "m", "e", "p", "l", "e">>)>>,
            <<CMD, PyDict(<<
                <<SHELL, PyStr(<<"e", "c", "h", "o", " ", "H", "E", "L", "L", "O", " ", "{", "{", "n", "a", "m", "e", "}", "}">>)>> >>)>>,
            <<ARGS, PyDict(<<
                <<w_name, PyStr(<<"h", "e", "l", "l", "o", " ", "a", "r", "g", "u", "m", "e", "n", "t">>)>> >>)>> >>)>>,
        <<w_my_func, PyDict(<<
            <<HELP, PyStr(<<"f", "u", "n", "c", " ", "c", "m", "d", " ", "e", "x", "a", "m", "m", "e", "p", "l", "e">>)>>,
            <<CMD, PyDict(<<
                <<FUNC, PyList(<<PyStr(<<"i", "m", "p", "o", "r", "t", " ", "j", "c", "m", "d", "_", "e", "x", "1">>), PyStr(<<"j", "c", "m", "d", "_", "e", "x", "1", ".", "m", "y", "_", "f", "u", "n", "c", "(", "f", "i", "r", "s", "t", ",", " ", "s", "e", "c", "o", "n", "d", ")">>)>>)>> >>)>>,
            <<ARGS, PyDict(<<
                <<w_first, PyStr(<<"f", "i", "r", "s", "t", " ", "a", "r", "g", "u", "m", "e", "n", "t">>)>>,
                <<w_second, PyStr(<<"s", "e", "c", "o", "n", "d", " ", "a", "r", "g", "u", "m", "e", "n", "t">>)>> >>)>> >>)>>,
        <<w_my_method_cmd, PyDict(<<
            <<HELP, PyStr(<<"m", "e", "t", "h", "o", "d", " ", "c", "m", "d", " ", "e", "x", "a", "m", "p", "l", "e">>)>>,
            <<CMD, PyDict(<<
                <<METHOD, PyStr(my_method)>> >>)>>,
            <<ARGS, PyDict(<<
                <<w_argument, PyStr(<<"m", "y", "-", "m", "e", "t", "h", "o", "d", " ", "a", "r", "g", "u", "m", "e", "n", "t">>)>> >>)>> >>)>> >>)

\* a leaf with a sub-command and two templates, and a group whose leaf is
\* bound to the quit method
ShowTree ==
    PyDict(<<
        <<w_show, PyDict(<<
            <<HELP, PyStr(<<"s">>)>>,
            <<CMD, PyDict(<<
                <<SHELL, PyStr(<<"e", "c", "h", "o", " ", "s", "h", "o", "w">>)>> >>)>>,
            <<w_version, PyDict(<<
                <<HELP, PyStr(<<"v">>)>>,
                <<CMD, PyDict(<<
                    <<SHELL, PyList(<<PyStr(<<"e", "c", "h", "o", " ", "{", "{", "x", "}", "}">>), PyStr(<<"e", "c", "h", "o", " ", "{", "{", "x", "}", "}", " ", "{", "{", "y", "}", "}">>)>>)>> >>)>>,
                <<ARGS, PyDict(<<
                    <<<<"x">>, PyDict(<<
                        <<HELP, PyStr(<<"e", "x">>)>>,
                        <<DefaultKey, PyInt(5)>> >>)>>,
                    <<<<"y">>, PyStr(<<"w", "h", "y">>)>> >>)>> >>)>> >>)>>,
        <<w_net, PyDict(<<
            <<HELP, PyStr(<<"n">>)>>,
            <<w_up, PyDict(<<
                <<HELP, PyStr(<<"u">>)>>,
                <<CMD, PyDict(<<
                    <<METHOD, PyStr(do_eof)>> >>)>> >>)>> >>)>> >>)

\* a description whose top-level key is the end-of-input sentinel
EofOverride ==
    PyDict(<<
        <<EOF, PyDict(<<
            <<HELP, PyStr(<<"b", "y", "e">>)>>,
            <<CMD, PyDict(<<
                <<SHELL, PyStr(<<"e", "c", "h", "o", " ", "b", "y", "e">>)>> >>)>> >>)>> >>)

w_sub == <<"s", "u", "b">>

w_nofile == <<"n", "o", "f", "i", "l", "e">>

\* a description with two subtree leaves: one names its file, the other
\* does not
SubtreeTree ==
    PyDict(<<
        <<w_sub, PyDict(<<
            <<HELP, PyStr(<<"s">>)>>,
            <<CMD, PyDict(<<
                <<SUBTREE, PyDict(<<
                    <<FileKey, PyStr(<<"s", ".", "j", "s", "o", "n">>)>>,
                    <<<<"p", "r", "o", "m", "p", "t">>, PyStr(<<"s", ">">>)>> >>)>> >>)>> >>)>>,
        <<w_nofile, PyDict(<<
            <<HELP, PyStr(<<"n">>)>>,
            <<CMD, PyDict(<<
                <<SUBTREE, PyDict(<<
                    <<<<"p", "r", "o", "m", "p", "t">>, PyStr(<<"n", ">">>)>> >>)>> >>)>> >>)>> >>)

\* key=value, and words joined by one blank
Eq(k, v) == k \o <<"=">> \o v

Sp(parts) == Join(parts, <<" ">>)

Placeholder(k) == <<"{", "{">> \o k \o <<"}", "}">>

L_blank == <<" ">>

L_hello_world == Sp(<<w_hello, Eq(w_name, w_world)>>)

L_hello == w_hello

L_hello_list == Sp(<<w_hello, Eq(w_name, <<"a", ",", "b">>)>>)

L_xyz == w_xyz

L_quit == quit

L_quit_kw == Sp(<<quit, Eq(<<"x">>, <<"1">>)>>)

\* hello "abc : the quote is never closed
L_unclosed == Sp(<<w_hello, <<"\"", "a", "b", "c">> >>)

L_show == w_show

L_version == Sp(<<w_show, w_version, Eq(<<"x">>, <<"1">>), Eq(<<"y">>, <<"2">>)>>)

L_version_default == Sp(<<w_show, w_version, Eq(<<"y">>, <<"z">>)>>)

\* the value typed for x is the text of the placeholder of y
L_version_braces == Sp(<<w_show, w_version, Eq(<<"x">>, Placeholder(<<"y">>)), Eq(<<"y">>, <<"z">>)>>)

L_net == w_net

L_net_up == Sp(<<w_net, w_up>>)

L_argument == w_argument

L_argument_ok == Sp(<<w_argument, Eq(w_madatory_data, <<"1">>)>>)

L_argument_low == Sp(<<w_argument, Eq(w_madatory_data, <<"1">>), Eq(w_range_data, <<"9">>)>>)

L_argument_nan == Sp(<<w_argument, Eq(w_madatory_data, <<"1">>), Eq(w_range_data, <<"a", "b", "c">>)>>)

L_argument_green == Sp(<<w_argument, Eq(w_madatory_data, <<"1">>), Eq(w_enum_data, <<"p", "i", "n", "k">>)>>)

L_my_func == Sp(<<w_my_func, Eq(w_first, <<"1">>), Eq(w_second, <<"2">>)>>)

L_help == Sp(<<HELP, w_hello>>)

L_shell == Sp(<<EXEC_SHELL, Eq(shell_cmd, <<"l", "s">>)>>)

\* the lines a user types at the prompt
InputLines ==
    {L_blank, L_hello_world, L_hello, L_hello_list, L_xyz, L_quit, L_quit_kw, L_unclosed,
     L_show, L_version, L_version_default, L_version_braces, L_net, L_net_up,
     L_argument, L_argument_ok, L_argument_low, L_argument_nan, L_argument_green,
     L_my_func, L_help, L_shell}

\* the lines the embedding program puts on the command queue
QueueLines == {L_xyz, L_quit, L_blank}

\* what a later load is called with
LoadSources ==
    {FromDict(Ex2Cmds), FromDict(ShowTree), FromDict(EofOverride), FromJson(HelloTree),
     MissingFile}

\* what the constructor is called with, and the class-level cmds table
InitSources == {NoSource, FromDict(HelloTree), FromJson(BadJson)}

ClassTables == {PyNone, Ex3Cmds}

\* the methods of JCmd that a description can name, and those of JcmdEx1
JCmdMethods == {do_eof, do_help, do_help_briefly}

MethodsOf(cmds) == IF cmds = PyNone THEN JCmdMethods ELSE JCmdMethods \cup {my_method}

(***************************************************************************)
(* Bounds.                                                                 *)
(***************************************************************************)
MaxLoads == 1

MaxDepth == 2

MaxQueue == 1

(***************************************************************************)
(* The state of one engine instance.                                       *)
(*   cmdtree   the command tree (self.cmdtree)                              *)
(*   end       the end flag (self.end)                                     *)
(*   cmdqueue  the command queue (self.cmdqueue)                           *)
(*   methods   the methods of the instance's class                         *)
(*   pc        "idle" outside cmdloop, "loop" inside its while loop        *)
(*   loads     the number of load calls after construction                 *)
(*   completion_matches  the candidates of the last completion             *)
(*   nested    the engines of the subtree actions in progress, the         *)
(*             innermost last; empty when the engine itself reads          *)
(*   obs       what the last operation did                                 *)
(***************************************************************************)
VARIABLES cmdtree, end, cmdqueue, methods, pc, loads, completion_matches, nested, obs

vars == <<cmdtree, end, cmdqueue, methods, pc, loads, completion_matches, nested, obs>>

NoCycle == Cycle(FALSE, FALSE, NoExc, <<>>, <<>>, "none", <<>>, FALSE, NotResolved)

\* the record of the last operation: its name, the line it was given, what
\* the dispatch cycle did, the end flag before it, and the exception that
\* left a load
Obs(op, line, cycle, before, exc) ==
    [op |-> op, line |-> line, cycle |-> cycle, before |-> before, exc |-> exc]

\* the exception a load ended with, NoExc when it returned
LoadExc(res) == IF res.ok THEN NoExc ELSE res.exc

\* the state after JCmd(**kargs) for a class whose table is cmds
Init ==
    \E kargs \in InitSources, cmds \in ClassTables :
        /\ cmdtree = JCmdInit(kargs, cmds)
        /\ end = FALSE
        /\ cmdqueue = <<>>
        /\ methods = MethodsOf(cmds)
        /\ pc = "idle"
        /\ loads = 0
        /\ completion_matches = PyList(<<>>)
        /\ nested = <<>>
        /\ obs = Obs("init", <<>>, NoCycle, FALSE, LoadExc(load(EmptyNode, kargs)))

Loaded(res) ==
    /\ cmdtree' = IF res.ok THEN res.tree ELSE cmdtree
    /\ obs' = Obs("load", <<>>, NoCycle, end, LoadExc(res))

\* j.load(...) between sessions: an exception of the loader leaves the call
Load(src) ==
    /\ pc = "idle"
    /\ loads < MaxLoads
    /\ loads' = loads + 1
    /\ Loaded(load(cmdtree, src))
    /\ UNCHANGED <<end, cmdqueue, methods, pc, completion_matches, nested>>

\* the embedding program appends a line to cmdqueue
QueueLine(line) ==
    /\ pc = "idle"
    /\ Len(cmdqueue) < MaxQueue
    /\ cmdqueue' = Append(cmdqueue, line)
    /\ obs' = Obs("queue", line, NoCycle, end, NoExc)
    /\ UNCHANGED <<cmdtree, end, methods, pc, loads, completion_matches, nested>>

\* cmdloop() is entered: stop = None
CmdLoopEnter ==
    /\ pc = "idle"
    /\ pc' = "loop"
    /\ obs' = Obs("enter", <<>>, NoCycle, end, NoExc)
    /\ UNCHANGED <<cmdtree, end, cmdqueue, methods, loads, completion_matches, nested>>

\* the engine of a subtree action: JCmd(cmdfile=file), src being what the
\* file holds; its end flag is its own
Frame(src) == [tree |-> JCmdInit(src, PyNone), end |-> FALSE]

\* what the file of a subtree action can hold
SubtreeFiles == {FromFile(HelloTree), FromFile(SubtreeTree), FromFile(BadJson), MissingFile}

\* the engines in progress after onecmd did c on the innermost of them (on
\* the engine itself when outer is empty): a subtree action constructs a
\* new engine and runs its cmdloop, onecmd being suspended in the call
Entered(outer, c) ==
    IF c.action = "subtree"
    THEN /\ Len(outer) < MaxDepth
         /\ \E src \in SubtreeFiles : nested' = Append(outer, Frame(src))
    ELSE nested' = outer

\* the end of one pass of the while loop of cmdloop, c being what onecmd
\* did: stop is its return value; an exception leaves cmdloop
Dispatched(line, c) ==
    /\ end' = c.end
    /\ pc' = IF c.raised # NoExc \/ c.ret THEN "idle" ELSE "loop"
    /\ obs' = Obs("cycle", line, c, end, NoExc)
    /\ Entered(<<>>, c)
    /\ UNCHANGED <<cmdtree, methods, loads, completion_matches>>

\* one pass of the while loop of cmdloop for the line read: precmd, onecmd,
\* postcmd, then the test of stop
Dispatch(line, fails) == Dispatched(line, onecmd(cmdtree, end, line, fails, methods))

\* the line comes from cmdqueue
CycleFromQueue ==
    /\ pc = "loop"
    /\ nested = <<>>
    /\ cmdqueue # <<>>
    /\ cmdqueue' = Tail(cmdqueue)
    /\ \E fails \in BOOLEAN : Dispatch(Head(cmdqueue), fails)

\* the line comes from input(prompt), lines being what the user types
CycleFromPrompt(lines) ==
    /\ pc = "loop"
    /\ nested = <<>>
    /\ cmdqueue = <<>>
    /\ UNCHANGED cmdqueue
    /\ \E line \in lines, fails \in BOOLEAN : Dispatch(line, fails)

CycleFromInput == CycleFromPrompt(InputLines)

\* input(prompt) raises EOFError: the line is the end-of-input sentinel
CycleOnEOF ==
    /\ pc = "loop"
    /\ nested = <<>>
    /\ cmdqueue = <<>>
    /\ UNCHANGED cmdqueue
    /\ \E fails \in BOOLEAN : Dispatch(EOF, fails)

\* the end of one pass of the while loop of the innermost nested cmdloop,
\* c being what its onecmd did.  When the loop stops, or an exception
\* leaves it, the engine below goes on after line 543: its end flag is
\* unset since the start of its try block, an exception is reported by its
\* except clause, and its onecmd returns its own end flag.
NestedDispatched(line, c) ==
    /\ IF c.raised # NoExc \/ c.ret
       THEN nested' = SubSeq(nested, 1, Len(nested) - 1)
       ELSE Entered([nested EXCEPT ![Len(nested)].end = c.end], c)
    /\ obs' = [op |-> "nested", line |-> line, cycle |-> c,
               before |-> nested[Len(nested)].end, exc |-> NoExc,
               reported |-> IF c.raised # NoExc THEN <<Reported(c.raised)>> ELSE <<>>]
    /\ UNCHANGED <<cmdtree, end, cmdqueue, methods, pc, loads, completion_matches>>

\* one pass of the while loop of the innermost nested cmdloop; the nested
\* engine is a JCmd and its cmdqueue is empty
NestedDispatch(line, fails) ==
    NestedDispatched(line, onecmd(nested[Len(nested)].tree, nested[Len(nested)].end, line,
                                  fails, JCmdMethods))

\* the nested loop reads a line from input(prompt)
NestedFromPrompt(lines) ==
    /\ pc = "loop"
    /\ nested # <<>>
    /\ \E line \in lines, fails \in BOOLEAN : NestedDispatch(line, fails)

\* input(prompt) of the nested loop raises EOFError
NestedOnEOF ==
    /\ pc = "loop"
    /\ nested # <<>>
    /\ \E fails \in BOOLEAN : NestedDispatch(EOF, fails)

Next ==
    \/ \E src \in LoadSources : Load(src)
    \/ \E line \in QueueLines : QueueLine(line)
    \/ CmdLoopEnter
    \/ CycleFromQueue
    \/ CycleFromInput
    \/ CycleOnEOF

Spec == Init /\ [][Next]_vars

(***************************************************************************)
(* Properties of the dispatch cycle and of the read loop.                  *)
(***************************************************************************)
\* the node the last cycle's line resolved to, and the arguments the line
\* supplies (defined when the line could be tokenized)
LastNode == JNodeFind(cmdtree, ParseLine(obs.line, -1, -1).words, TRUE)[2]

LastSupplied == ParseLine(obs.line, -1, -1).args

\* the last step was a dispatch cycle that reached a leaf
LeafCycle == obs.op = "cycle" /\ obs.cycle.leaf

\* a template read once from left to right, each placeholder replaced by
\* the text of the value of the argument it names
RECURSIVE Substituted(_, _)
Substituted(template, args) ==
    LET front == Find(template, <<"{", "{">>)
        tail  == Find(template, <<"}", "}">>)
    IN  IF front < 0 \/ tail < front THEN template
        ELSE Slice(template, 0, front)
                 \o TextOf(Get(args, Slice(template, front + 2, tail)))
                 \o Substituted(From(template, tail + 2), args)

\* the declared templates of a shell leaf, in declared order
TemplatesOf(node) == IF IsList(node.shell) THEN node.shell.v ELSE <<node.shell>>

\* the command line C1 describes for a shell leaf and resolved arguments
ExpectedCommandLine(node, args) ==
    Join([i \in 1..Len(TemplatesOf(node)) |-> Substituted(TemplatesOf(node)[i].v, args)],
         <<" ", "&", "&", " ">>)

\* C1: a cycle whose best-match node is a leaf with a shell action runs
\* exactly one subprocess, and its command line is the declared templates
\* in declared order, every placeholder replaced by the text of the
\* resolved value of the argument it names, joined by " && ".
C1_ShellRunsTemplates ==
    (LeafCycle /\ obs.cycle.action = "shell")
        => obs.cycle.spawned = <<ExpectedCommandLine(LastNode, obs.cycle.resolved.args)>>

\* the hello scenario of C1: hello name=world runs echo HELLO world
C1_HelloWorldRan ==
    /\ obs.op = "cycle"
    /\ obs.line = L_hello_world
    /\ obs.cycle.spawned = <<<<"e", "c", "h", "o", " ", "H", "E", "L", "L", "O", " ",
                               "w", "o", "r", "l", "d">>>>

\* what the declaration decl of a leaf says about its i-th argument, given
\* the values sup the line supplies
ArgMissing(decl, sup, i) == ~Has(sup, decl[i][1]) /\ ~Has(decl[i][2].v, DefaultKey)

\* the supplied value cannot be read as an integer although a range is
\* declared
ArgUnreadable(decl, sup, i) ==
    /\ Has(sup, decl[i][1])
    /\ Truthy(GetOrNone(decl[i][2].v, RangeKey))
    /\ ~(Get(sup, decl[i][1]).t = "str" /\ IsIntText(Get(sup, decl[i][1]).v))

DeclaredBounds(spec) == Split(Strip(Get(spec.v, RangeKey).v, {"<", ">"}), "-")

ArgOutOfRange(decl, sup, i) ==
    /\ Has(sup, decl[i][1])
    /\ Truthy(GetOrNone(decl[i][2].v, RangeKey))
    /\ ~ArgUnreadable(decl, sup, i)
    /\ \/ IntOfText(Get(sup, decl[i][1]).v) < IntOfText(DeclaredBounds(decl[i][2])[1])
       \/ IntOfText(Get(sup, decl[i][1]).v) > IntOfText(DeclaredBounds(decl[i][2])[2])

ArgNotInEnum(decl, sup, i) ==
    /\ Has(sup, decl[i][1])
    /\ Truthy(GetOrNone(decl[i][2].v, EnumKey))
    /\ ~ArgUnreadable(decl, sup, i)
    /\ \A j \in 1..Len(Get(decl[i][2].v, EnumKey).v) :
           Get(decl[i][2].v, EnumKey).v[j] # Get(sup, decl[i][1])

\* a failure of one of the three kinds that name their argument
ArgNamedFailure(decl, sup, i) ==
    ArgMissing(decl, sup, i) \/ ArgOutOfRange(decl, sup, i) \/ ArgNotInEnum(decl, sup, i)

ArgFails(decl, sup, i) == ArgNamedFailure(decl, sup, i) \/ ArgUnreadable(decl, sup, i)

SomeArgFails(decl, sup) == \E i \in 1..Len(decl) : ArgFails(decl, sup, i)

FirstFailing(decl, sup) ==
    CHOOSE i \in 1..Len(decl) :
        ArgFails(decl, sup, i) /\ \A j \in 1..(i - 1) : ~ArgFails(decl, sup, j)

C3_UnknownCommandContinues ==
    (/\ obs.op = "cycle"
     /\ Strip(obs.line, ShlexWhitespace) # <<>>
     /\ obs.cycle.raised = NoExc
     /\ ~obs.cycle.leaf)
        => /\ obs.cycle.out = <<default(obs.line)>>
           /\ ~obs.cycle.resolved.run
           /\ obs.cycle.action = "none"
           /\ obs.cycle.spawned = <<>>
           /\ ~obs.cycle.ret
           /\ ~end
           /\ pc = "loop"

\* the scenario of C3 in a first session: xyz is reported and the loop goes on
C3_UnknownReported ==
    /\ obs.op = "cycle"
    /\ obs.line = L_xyz
    /\ obs.cycle.out = <<default(L_xyz)>>
    /\ ~end
    /\ pc = "loop"

\* the last cycle dispatched the quit action
QuitDispatched == obs.cycle.called = do_eof

\* C4: the read loop stops after a cycle if and only if that cycle
\* dispatched the quit action, and only such a cycle leaves the end flag
\* set; stated for the cycles that return.
C4_LoopStopsOnlyOnQuit ==
    (obs.op = "cycle" /\ obs.cycle.raised = NoExc)
        => /\ (pc = "idle") = QuitDispatched
           /\ end = QuitDispatched

\* a quit was dispatched and stopped the loop
C4_QuitStopped == obs.op = "cycle" /\ QuitDispatched /\ pc = "idle" /\ end

ReservedCommands == {EOF, quit, exit, EXEC_SHELL, HELP, BRIEF_HELP, LIST}

\* C5: in every reachable state the reserved commands are in the tree and
\* the end-of-input sentinel is a leaf bound to the quit action, and a cycle
\* on end of input sets the end flag and stops the loop.
C5_ReservedCommandsPresent ==
    /\ \A k \in ReservedCommands : Has(cmdtree.v, k)
    /\ Get(cmdtree.v, EOF).eoc
    /\ Get(cmdtree.v, EOF).method = PyStr(do_eof)
    /\ (obs.op = "cycle" /\ obs.line = EOF) => (end /\ pc = "idle")

\* end of input was read and stopped the loop
C5_EofStopped == obs.op = "cycle" /\ obs.line = EOF /\ QuitDispatched /\ end /\ pc = "idle"

\* C6: a line with malformed quoting is handled like an unknown command:
\* one report, no action, the end flag unset, the cycle returns and the
\* read loop goes on.
C6_MalformedQuotingReported ==
    (/\ obs.op = "cycle"
     /\ Strip(obs.line, ShlexWhitespace) # <<>>
     /\ ~ShlexSplit(obs.line).ok)
        => /\ obs.cycle.raised = NoExc
           /\ Len(obs.cycle.out) = 1
           /\ obs.cycle.action = "none"
           /\ obs.cycle.spawned = <<>>
           /\ ~end
           /\ pc = "loop"

\* a line with an unclosed quote was dispatched
C6_UnclosedDispatched == obs.op = "cycle" /\ obs.line = L_unclosed

(***************************************************************************)
(* The argument resolver on its own: a leaf with two declared arguments,   *)
(* a and b, and a line that supplies a value for each, or omits it.        *)
(***************************************************************************)
w_run == <<"r", "u", "n">>

w_a == <<"a">>

w_b == <<"b">>

t_red == <<"r", "e", "d">>

t_blue == <<"b", "l", "u", "e">>

t_green == <<"g", "r", "e", "e", "n">>

t_range == <<"<", "1", "0", "-", "1", "0", "0", ">">>

\* the ways the description can declare an argument
SpecDoc == PyStr(<<"d", "o", "c">>)

SpecHelp == PyDict(<< <<HELP, PyStr(<<"d", "o", "c">>)>> >>)

SpecDefault == PyDict(<< <<DefaultKey, PyStr(<<"x">>)>> >>)

SpecRange == PyDict(<< <<RangeKey, PyStr(t_range)>> >>)

SpecRangeDefault == PyDict(<< <<RangeKey, PyStr(t_range)>>, <<DefaultKey, PyInt(10)>> >>)

SpecEnum == PyDict(<< <<EnumKey, PyList(<<PyStr(t_red), PyStr(t_blue)>>)>> >>)

SpecEnumDefault ==
    PyDict(<< <<EnumKey, PyList(<<PyStr(t_red), PyStr(t_blue)>>)>>,
              <<DefaultKey, PyStr(t_red)>> >>)

SpecRangeEnum ==
    PyDict(<< <<RangeKey, PyStr(t_range)>>,
              <<EnumKey, PyList(<<PyStr(<<"9">>), PyStr(<<"1", "0">>)>>)>> >>)

SpecEmptyEnum == PyDict(<< <<EnumKey, PyList(<<>>)>> >>)

SpecsA ==
    {SpecDoc, SpecHelp, SpecDefault, SpecRange, SpecRangeDefault, SpecEnum, SpecEnumDefault,
     SpecRangeEnum, SpecEmptyEnum}

SpecsB == {SpecDoc, SpecDefault, SpecRange, SpecEnum}

\* what the line says about an argument: nothing, or one value
Omitted == <<"o", "m", "i", "t", "t", "e", "d">>

ValuesA ==
    {Omitted, <<"9">>, <<"1", "0">>, <<"1", "0", "0">>, <<"1", "0", "1">>, t_red, t_green,
     <<"a", "b", "c">>}

ValuesB == {Omitted, <<"9">>, <<"5", "0">>, t_red, t_green}

\* the description of a leaf run declaring a as sa and then b as sb
ResolverTree(sa, sb) ==
    PyDict(<< <<w_run, PyDict(<< <<CMD, PyDict(<< <<METHOD, PyStr(my_method)>> >>)>>,
                                 <<ARGS, PyDict(<< <<w_a, sa>>, <<w_b, sb>> >>)>> >>)>> >>)

Assignment(k, v) == IF v = Omitted THEN <<>> ELSE <<Eq(k, v)>>

\* the line run a=va b=vb, an omitted argument left out
ResolverLine(va, vb) == Sp(<<w_run>> \o Assignment(w_a, va) \o Assignment(w_b, vb))

\* a line was typed for the leaf; the resolver has not run
InitResolve ==
    \E sa \in SpecsA, sb \in SpecsB, va \in ValuesA, vb \in ValuesB :
        /\ cmdtree = LoadFromDict(EmptyNode, ResolverTree(sa, sb))
        /\ end = FALSE
        /\ cmdqueue = <<>>
        /\ methods = JCmdMethods \cup {my_method}
        /\ pc = "idle"
        /\ loads = 0
        /\ completion_matches = PyList(<<>>)
        /\ nested = <<>>
        /\ obs = [op |-> "typed", line |-> ResolverLine(va, vb)]

\* the outcome of update_args for the node and the arguments of a line
ResolverRan(line, node, parsed) ==
    obs' = [op |-> "resolved", line |-> line, decl |-> node.args, sup |-> parsed.args,
            res |-> update_args(parsed.args, node.args)]

\* self.update_args(args, cmd_node.args) for the line typed
Resolve ==
    /\ obs.op = "typed"
    /\ ResolverRan(obs.line, Get(cmdtree.v, w_run), ParseLine(obs.line, -1, -1))
    /\ UNCHANGED <<cmdtree, end, cmdqueue, methods, pc, loads, completion_matches, nested>>

NextResolve == Resolve

SpecResolve == InitResolve /\ [][NextResolve]_vars

\* the resolver has run on the line typed
ResolverDone == obs.op = "resolved"

\* no declared argument before the i-th fails
NoEarlierFailure(decl, sup, i) == \A j \in 1..(i - 1) : ~ArgFails(decl, sup, j)

\* what C7 and its amended form agree on: on success the resolved map has a
\* value for every declared argument, the supplied value where the line
\* supplies one and the default where the line omits the argument
ResolvedMapFilled ==
    obs.res.ok =>
        \A i \in 1..Len(obs.decl) :
            /\ Has(obs.res.args, obs.decl[i][1])
            /\ Has(obs.sup, obs.decl[i][1])
                   => Get(obs.res.args, obs.decl[i][1]) = Get(obs.sup, obs.decl[i][1])
            /\ (~Has(obs.sup, obs.decl[i][1]) /\ Has(obs.decl[i][2].v, DefaultKey))
                   => Get(obs.res.args, obs.decl[i][1]) = Get(obs.decl[i][2].v, DefaultKey)

\* C7 as stated: for every declared argument, a supplied value is kept, an
\* omitted argument takes its default, and an argument omitted without a
\* default makes resolution fail with a missing-argument error naming that
\* argument; on success every declared argument has a value.
C7_EveryOmissionNamed ==
    ResolverDone =>
        /\ ResolvedMapFilled
        /\ \A i \in 1..Len(obs.decl) :
               ArgMissing(obs.decl, obs.sup, i)
                   => (~obs.res.ok /\ obs.res.exc = KeyError(obs.decl[i][1]))

\* C7 amended: as C7, but the error of a failed resolution is that of the
\* first declared argument that fails: an argument omitted without a
\* default makes resolution fail, and the error is the missing-argument
\* error naming it when no argument declared before it fails.
C7_FirstOmissionNamed ==
    ResolverDone =>
        /\ ResolvedMapFilled
        /\ \A i \in 1..Len(obs.decl) :
               ArgMissing(obs.decl, obs.sup, i)
                   => /\ ~obs.res.ok
                      /\ NoEarlierFailure(obs.decl, obs.sup, i)
                             => obs.res.exc = KeyError(obs.decl[i][1])

\* resolution succeeded with a supplied and b taken from its default
C7_DefaultTaken ==
    /\ ResolverDone
    /\ obs.res.ok
    /\ Has(obs.sup, w_a)
    /\ ~Has(obs.sup, w_b)
    /\ Get(obs.res.args, w_a) = Get(obs.sup, w_a)
    /\ Get(obs.res.args, w_b) = PyStr(<<"x">>)

\* the constraints an argument declares, read as C8 reads them: a range
\* admits the integers from lo to hi, an enum admits its members
InDeclaredRange(spec, v) ==
    /\ v.t = "str"
    /\ IsIntText(v.v)
    /\ IntOfText(DeclaredBounds(spec)[1]) <= IntOfText(v.v)
    /\ IntOfText(v.v) <= IntOfText(DeclaredBounds(spec)[2])

InDeclaredEnum(spec, v) ==
    \E j \in 1..Len(Get(spec.v, EnumKey).v) : Get(spec.v, EnumKey).v[j] = v

SatisfiesDeclared(spec, v) ==
    /\ Has(spec.v, RangeKey) => InDeclaredRange(spec, v)
    /\ Has(spec.v, EnumKey) => InDeclaredEnum(spec, v)

\* the same, an enum that lists no value being no constraint
SatisfiesNonEmpty(spec, v) ==
    /\ Has(spec.v, RangeKey) => InDeclaredRange(spec, v)
    /\ (Has(spec.v, EnumKey) /\ Get(spec.v, EnumKey).v # <<>>) => InDeclaredEnum(spec, v)

\* the i-th declared argument is supplied and no other declared argument
\* makes resolution fail
OnlyArgumentAtStake(i) ==
    /\ Has(obs.sup, obs.decl[i][1])
    /\ \A j \in 1..Len(obs.decl) : j # i => ~ArgFails(obs.decl, obs.sup, j)

\* the kind of error C8 names for a value outside its constraints: a range
\* error for an integer outside the range, an enum error for a value that
\* is in range, or has no range, and is no member
ErrorKindFits(spec, key, v) ==
    /\ (Has(spec.v, RangeKey) /\ v.t = "str" /\ IsIntText(v.v) /\ ~InDeclaredRange(spec, v))
           => obs.res.exc = Exc("ValueError", "out of range:", <<key>>, v)
    /\ ((Has(spec.v, RangeKey) => InDeclaredRange(spec, v)) /\ ~obs.res.ok)
           => obs.res.exc = Exc("ValueError", "out of value:", <<key>>, v)

MaxWords == 3

FindDescriptions == {HelloTree, ShowTree}

\* the node a description is loaded into: a new JNode, or the tree of a new
\* engine, which holds the built-in commands
FindBases == {EmptyNode, JCmdInit(NoSource, PyNone)}

FindWords == {w_hello, w_show, w_version, w_net, w_up, w_xyz, CMD, quit}

WordSeqs == UNION {[1..n -> FindWords] : n \in 0..MaxWords}

InitFind ==
    \E base \in FindBases, dic \in FindDescriptions, jnodes \in WordSeqs, bestmatch \in BOOLEAN :
        /\ cmdtree = base
        /\ end = FALSE
        /\ cmdqueue = <<>>
        /\ methods = JCmdMethods
        /\ pc = "idle"
        /\ loads = 0
        /\ completion_matches = PyList(<<>>)
        /\ nested = <<>>
        /\ obs = [op |-> "new", dic |-> dic, jnodes |-> jnodes, bestmatch |-> bestmatch]

\* load_from_dict(dic) on the node
LoadDescription ==
    /\ obs.op = "new"
    /\ cmdtree' = LoadFromDict(cmdtree, obs.dic)
    /\ obs' = [obs EXCEPT !.op = "loaded"]
    /\ UNCHANGED <<end, cmdqueue, methods, pc, loads, completion_matches, nested>>

\* find(jnodes, bestmatch) on the node
FindWordSeq ==
    /\ obs.op = "loaded"
    /\ obs' = [op |-> "found", dic |-> obs.dic, jnodes |-> obs.jnodes,
               bestmatch |-> obs.bestmatch,
               res |-> JNodeFind(cmdtree, obs.jnodes, obs.bestmatch)]
    /\ UNCHANGED <<cmdtree, end, cmdqueue, methods, pc, loads, completion_matches, nested>>

NextFind == LoadDescription \/ FindWordSeq

SpecFind == InitFind /\ [][NextFind]_vars

\* W is a path of child keys from node
RECURSIVE IsTreePath(_, _)
IsTreePath(node, W) ==
    W = <<>> \/ (Has(node.v, Head(W)) /\ IsTreePath(Get(node.v, Head(W)), Tail(W)))

\* the node reached from node by following W
RECURSIVE NodeAt(_, _)
NodeAt(node, W) == IF W = <<>> THEN node ELSE NodeAt(Get(node.v, Head(W)), Tail(W))

\* W is a path of keys of the description D
RECURSIVE IsKeyPath(_, _)
IsKeyPath(D, W) ==
    W = <<>> \/ (IsMapping(D) /\ Has(D.v, Head(W)) /\ IsKeyPath(Get(D.v, Head(W)), Tail(W)))

Prefix(W, n) == SubSeq(W, 1, n)

\* the length of the longest prefix of W that is a path of the tree, and of
\* the description
TreePathLen(node, W) ==
    CHOOSE n \in 0..Len(W) :
        /\ IsTreePath(node, Prefix(W, n))
        /\ \A m \in (n + 1)..Len(W) : ~IsTreePath(node, Prefix(W, m))

KeyPathLen(D, W) ==
    CHOOSE n \in 0..Len(W) :
        /\ IsKeyPath(D, Prefix(W, n))
        /\ \A m \in (n + 1)..Len(W) : ~IsKeyPath(D, Prefix(W, m))

\* the answer for a longest prefix of length k: the node reached by the
\* prefix when it is all of W or the best match is asked for, an empty node
\* otherwise; and the best match is the node find gives for the prefix alone
FindAnswers(k) ==
    /\ obs.res[1] = k
    /\ obs.res[2] = IF k = Len(obs.jnodes) \/ obs.bestmatch
                    THEN NodeAt(cmdtree, Prefix(obs.jnodes, k))
                    ELSE EmptyNode
    /\ JNodeFind(cmdtree, obs.jnodes, TRUE)[2]
           = JNodeFind(cmdtree, Prefix(obs.jnodes, k), FALSE)[2]

\* C9 as stated: after load(D), find(W, bestMatch) counts the longest prefix
\* of W that is a path of keys in D and returns the node reached by it, or
\* an empty node when the prefix is not all of W and no best match is asked
\* for.
C9_LongestPrefixOfDescription ==
    obs.op = "found" => FindAnswers(KeyPathLen(obs.dic, obs.jnodes))

\* C9 amended: the same with the paths of the tree after the load, whose
\* child keys are the keys of D other than the consumed help, cmd and args
\* and the keys the node held before the load.
C9_LongestPrefixOfTree ==
    obs.op = "found" => FindAnswers(TreePathLen(cmdtree, obs.jnodes))

\* a best-match lookup stopped at show version before an unknown word
C9_BestMatchStopped ==
    /\ obs.op = "found"
    /\ obs.jnodes = <<w_show, w_version, w_xyz>>
    /\ obs.bestmatch
    /\ obs.res[1] = 2
    /\ obs.res[2].eoc
    /\ obs.res[2] = JNodeFind(cmdtree, <<w_show, w_version>>, FALSE)[2]

(***************************************************************************)
(* Completion on its own: a line is typed at the prompt of an engine and   *)
(* the completer is asked for its candidates, the cursor at the end.       *)
(***************************************************************************)
\* the engine of src/jcmd_ex3.py constructed with the table of
\* src/jcmd_ex2.py, and the same after a later load
\* the engines of the hello scenario: the description handed to the
\* constructor, or loaded after it as src/hello_jcmd.py does
HelloEngines ==
    {JCmdInit(FromDict(HelloTree), PyNone),
     load(JCmdInit(NoSource, PyNone), FromDict(HelloTree)).tree}

CompleteTrees ==
    {JCmdInit(FromDict(Ex2Cmds), Ex3Cmds),
     load(JCmdInit(FromDict(Ex2Cmds), Ex3Cmds), FromDict(ShowTree)).tree}
        \cup HelloEngines

\* the lines a user is on the way to typing
FullLines ==
    {L_my_func,
     Sp(<<w_my_func, Eq(w_second, <<"2">>), Eq(w_first, <<"1">>)>>),
     Sp(<<w_argument, Eq(w_enum_data, <<"b", "l", "u", "e">>), Eq(w_range_data, <<"5">>)>>),
     L_version, L_help, L_hello_list, L_net_up, L_unclosed}

\* every beginning of a full line, as it is and followed by a blank
Beginnings(f) == {SubSeq(f, 1, n) : n \in 0..Len(f)}

PartialLines ==
    UNION {Beginnings(f) \cup {b \o <<" ">> : b \in Beginnings(f)} : f \in FullLines}

\* what glob can find in the working directory
FileListings == {<<>>, <<<<"a", ".", "j", "s", "o", "n">>>>}

InitComplete ==
    \E tree \in CompleteTrees :
        /\ cmdtree = tree
        /\ end = FALSE
        /\ cmdqueue = <<>>
        /\ methods = JCmdMethods \cup {my_method}
        /\ pc = "loop"
        /\ loads = 0
        /\ completion_matches = PyList(<<>>)
        /\ nested = <<>>
        /\ obs = [op |-> "prompt", line |-> <<>>, exc |-> NoExc]

\* the user types the beginning of a line
TypeLine(line) ==
    /\ obs.op = "prompt"
    /\ obs' = [op |-> "typed", line |-> line, exc |-> NoExc]
    /\ UNCHANGED <<cmdtree, end, cmdqueue, methods, pc, loads, completion_matches, nested>>

\* the end of complete(text, 0): the candidates are kept; an exception of
\* the parser leaves complete and completion_matches as it was
CompletionKept(c) ==
    /\ completion_matches' = IF c.ok THEN c.matches ELSE completion_matches
    /\ obs' = [op |-> "completed", line |-> obs.line, exc |-> IF c.ok THEN NoExc ELSE c.exc]

\* the user presses the completion key: complete(text, 0)
PressTab(files) ==
    /\ obs.op = "typed"
    /\ CompletionKept(Complete(cmdtree, obs.line, files))
    /\ UNCHANGED <<cmdtree, end, cmdqueue, methods, pc, loads, nested>>

NextComplete ==
    \/ \E line \in PartialLines : TypeLine(line)
    \/ \E files \in FileListings : PressTab(files)

SpecComplete == InitComplete /\ [][NextComplete]_vars

\* the completer answered for the line typed
CompletionDone == obs.op = "completed" /\ obs.exc = NoExc

\* the line as the completer parsed it
Typed == ParseLine(obs.line, BegIdx(obs.line), Len(obs.line))

\* the node the typed words resolve to, and the number of words that lead
\* to it
TypedNode == JNodeFind(cmdtree, Typed.words, TRUE)[2]

TypedDepth == JNodeFind(cmdtree, Typed.words, TRUE)[1]

\* the words typed after the command path
TypedRest == SubSeq(Typed.words, TypedDepth + 1, Len(Typed.words))

\* the candidates, as a set of texts
CandidateSet ==
    IF completion_matches.t = "list"
    THEN {completion_matches.v[i] : i \in 1..Len(completion_matches.v)}
    ELSE {}

\* the typed line resolves to a leaf that declares at least two arguments
AtLeafWithArguments == TypedNode.eoc /\ Len(TypedNode.args) >= 2

\* the declared arguments offered by name among the candidates
OfferedArguments ==
    {i \in 1..Len(TypedNode.args) : (TypedNode.args[i][1] \o <<"=">>) \in CandidateSet}

\* the declared arguments that have no value on the line
Unsupplied == {i \in 1..Len(TypedNode.args) : ~Has(Typed.args, TypedNode.args[i][1])}

ArgumentsWellFormed ==
    /\ ~(Typed.incomplete # <<>> /\ TypedDepth = Len(Typed.words))
    /\ \A j \in 1..Len(TypedRest) :
           (Typed.incomplete # <<>> /\ j = Len(TypedRest))
               \/ /\ Has(TypedNode.args, TypedRest[j])
                  /\ Has(Typed.args, TypedRest[j])
                  /\ TypedRest[j] # Typed.incomplete

\* the token being completed is the key of an argument whose value is
\* being typed
ValueMode ==
    /\ Typed.incomplete # <<>>
    /\ Has(TypedNode.args, Typed.incomplete)
    /\ Has(Typed.args, Typed.incomplete)

\* the names of the declared arguments, from the i-th on, that have no
\* value on the line and start with the token being completed, each
\* followed by "="
RECURSIVE UnsuppliedNames(_)
UnsuppliedNames(i) ==
    IF i > Len(TypedNode.args) THEN <<>>
    ELSE (IF i \in Unsupplied /\ StartsWith(TypedNode.args[i][1], Typed.incomplete)
          THEN <<TypedNode.args[i][1] \o <<"=">>>>
          ELSE <<>>) \o UnsuppliedNames(i + 1)

L_he == <<"h", "e">>

\* he was typed at the prompt of an engine of the hello scenario and the
\* completer answered
HeCompleted == CompletionDone /\ cmdtree \in HelloEngines /\ obs.line = L_he

\* C11 as stated: on an engine whose loaded description is the hello tree,
\* completing he with the cursor at the end of the line yields exactly one
\* candidate, hello followed by a blank.
C11_HelloOnly ==
    HeCompleted => completion_matches = PyList(<<w_hello \o <<" ">>>>)

\* C11 amended: on an engine whose loaded description is the hello tree,
\* completing he yields exactly two candidates, hello and the reserved
\* command help, each followed by a blank, in the order of the tree's keys.
C11_HelloAndHelp ==
    HeCompleted =>
        /\ completion_matches.t = "list"
        /\ Len(completion_matches.v) = 2
        /\ CandidateSet = {w_hello \o <<" ">>, HELP \o <<" ">>}
        /\ LET IsEither(item) == item[1] \in {w_hello, HELP}
               either == SelectSeq(cmdtree.v, IsEither)
           IN  completion_matches.v = [i \in 1..2 |-> either[i][1] \o <<" ">>]

\* he completed on the engine constructed with the hello description
C11_HeCompleted ==
    /\ HeCompleted
    /\ cmdtree = JCmdInit(FromDict(HelloTree), PyNone)
    /\ completion_matches = PyList(<<w_hello \o <<" ">>, HELP \o <<" ">>>>)

(***************************************************************************)
(* Loading on its own: an engine is constructed and descriptions are       *)
(* loaded into its tree one after the other.                               *)
(***************************************************************************)
MaxReloads == 2

w_bad == <<"b", "a", "d">>

w_grp == <<"g", "r", "p">>

\* a description whose cmd mapping names no action the engine knows
BadTagTree ==
    PyDict(<<
        <<w_bad, PyDict(<<
            <<HELP, PyStr(<<"b">>)>>,
            <<CMD, PyDict(<<
                <<w_run, PyStr(<<"e", "c", "h", "o", " ", "x">>)>> >>)>> >>)>> >>)

\* a description with a group that declares args and no cmd
ArgsOnlyTree ==
    PyDict(<<
        <<w_grp, PyDict(<<
            <<HELP, PyStr(<<"g">>)>>,
            <<ARGS, PyDict(<<
                <<w_name, PyStr(<<"d", "o", "c">>)>> >>)>>,
            <<w_sub, PyDict(<<
                <<HELP, PyStr(<<"s">>)>>,
                <<CMD, PyDict(<<
                    <<SHELL, PyStr(<<"e", "c", "h", "o", " ", "s">>)>> >>)>> >>)>> >>)>> >>)

LoadDescriptions == {HelloTree, Ex2Cmds, ShowTree, EofOverride, BadTagTree, ArgsOnlyTree}

\* what the constructor and the later loads are called with
ConstructSources ==
    {NoSource, FromDict(HelloTree), FromDict(BadTagTree), FromJson(BadJson), MissingFile}

ReloadSources ==
    {FromDict(d) : d \in LoadDescriptions}
        \cup {FromJson(HelloTree), FromFile(ShowTree), FromJson(BadJson), MissingFile}

\* the record of a load: the source, the tree before it, the exception it
\* ended with and the source of the operation before it (NoSource when
\* that one failed)
LoadObs(op, src, before, exc, prev) ==
    [op |-> op, src |-> src, before |-> before, exc |-> exc, prev |-> prev]

InitLoad ==
    \E kargs \in ConstructSources :
        /\ cmdtree = JCmdInit(kargs, PyNone)
        /\ end = FALSE
        /\ cmdqueue = <<>>
        /\ methods = JCmdMethods
        /\ pc = "idle"
        /\ loads = 0
        /\ completion_matches = PyList(<<>>)
        /\ nested = <<>>
        /\ obs = LoadObs("init", kargs, EmptyNode, LoadExc(load(EmptyNode, kargs)), NoSource)

Reloaded(src, res) ==
    /\ cmdtree' = IF res.ok THEN res.tree ELSE cmdtree
    /\ obs' = LoadObs("load", src, cmdtree, LoadExc(res),
                      IF obs.exc = NoExc THEN obs.src ELSE NoSource)

\* j.load(...) after construction
Reload(src) ==
    /\ loads < MaxReloads
    /\ loads' = loads + 1
    /\ Reloaded(src, load(cmdtree, src))
    /\ UNCHANGED <<end, cmdqueue, methods, pc, completion_matches, nested>>

NextLoad == \E src \in ReloadSources : Reload(src)

SpecLoad == InitLoad /\ [][NextLoad]_vars

\* a load after construction returned
LoadReturned == obs.op = "load" /\ obs.exc = NoExc

\* the top-level keys of the description just loaded, and of a tree
LoadedKeys == {obs.src.doc.v[i][1] : i \in 1..Len(obs.src.doc.v)}

KeySet(node) == {node.v[i][1] : i \in 1..Len(node.v)}

\* the node the description just loaded gives for its key k: the one a new
\* node holds after the description alone is loaded into it
NodeOfLoaded(k) == JNodeFind(LoadFromDict(EmptyNode, obs.src.doc), <<k>>, FALSE)

BadTagHandled == obs.op \in {"init", "load"} /\ obs.src.doc = BadTagTree

\* the node is a leaf without any of the four actions
LeafWithoutAction(node) ==
    /\ node.eoc
    /\ node.func = PyNone
    /\ node.shell = PyNone
    /\ node.method = PyNone
    /\ node.subtree = PyNone

\* C13: a load of a description whose cmd mapping carries an action tag
\* other than shell, func, method and subtree ends with an error of the
\* loader that is reported, the node is not installed as a leaf, and the
\* engine holds its reserved commands.
C13_BadTagRejected ==
    BadTagHandled =>
        /\ obs.exc # NoExc
        /\ Has(cmdtree.v, w_bad) => ~Get(cmdtree.v, w_bad).eoc
        /\ \A k \in ReservedCommands : Has(cmdtree.v, k)

\* a load after construction was handed that description: it returned,
\* nothing was reported and the node is a leaf without an action
C13_BadTagInstalled ==
    /\ BadTagHandled
    /\ obs.op = "load"
    /\ obs.exc = NoExc
    /\ ~Has(obs.before.v, w_bad)
    /\ Has(cmdtree.v, w_bad)
    /\ LeafWithoutAction(Get(cmdtree.v, w_bad))
    /\ \A k \in ReservedCommands : Has(cmdtree.v, k)

\* the keys of a description's mapping that name children
ChildKeys(d) == {d.v[i][1] : i \in 1..Len(d.v)} \ {HELP, CMD, ARGS}

\* the argument-spec map a node holds for the args mapping of its
\* description: the same names in the same order, an entry that is no
\* mapping being a spec that holds only that doc string
ArgsConform(dargs, nargs) ==
    /\ Keys(nargs) = Keys(dargs.v)
    /\ \A i \in 1..Len(nargs) :
           IF IsMapping(dargs.v[i][2])
           THEN nargs[i][2].t = "node"
           ELSE /\ nargs[i][2].t = "node"
                /\ nargs[i][2].doc = dargs.v[i][2]
                /\ nargs[i][2].v = <<>>
                /\ ~nargs[i][2].eoc

\* the node n is what the mapping d of a description stands for, at every
\* depth below it
RECURSIVE Conforms(_, _)
Conforms(d, n) ==
    /\ n.t = "node"
    /\ n.doc = (IF Has(d.v, HELP) THEN Get(d.v, HELP) ELSE PyStr(NO_HELP))
    /\ n.eoc = Has(d.v, CMD)
    /\ KeySet(n) = ChildKeys(d)
    /\ IF Has(d.v, ARGS) THEN ArgsConform(Get(d.v, ARGS), n.args) ELSE n.args = <<>>
    /\ \A k \in ChildKeys(d) \cap KeySet(n) : Conforms(Get(d.v, k), Get(n.v, k))

\* C14: for every mapping at any depth of a loaded description the node's
\* children are the mapping's keys other than help, cmd and args; help is
\* the doc string ("no help" when absent), cmd makes the node a leaf and
\* leaves its sibling keys children, and args is the argument-spec map,
\* never a child, whether or not the node declares cmd.
C14_ArgsNeverAChild ==
    LoadReturned =>
        \A k \in LoadedKeys : Conforms(Get(obs.src.doc.v, k), Get(cmdtree.v, k))

\* the description with show was loaded: show is a leaf that has the child
\* version, and the doc string given for version's argument y became a
\* spec
C14_LeafWithChild ==
    /\ LoadReturned
    /\ obs.src.doc = ShowTree
    /\ Get(cmdtree.v, w_show).eoc
    /\ Has(Get(cmdtree.v, w_show).v, w_version)
    /\ Get(Get(Get(cmdtree.v, w_show).v, w_version).args, <<"y">>).doc = PyStr(<<"w", "h", "y">>)
    /\ Conforms(Get(ShowTree.v, w_show), Get(cmdtree.v, w_show))

(***************************************************************************)
(* Subtree actions: an engine whose description has subtree leaves reads   *)
(* lines, and so do the engines its subtree actions construct.             *)
(***************************************************************************)
L_sub == w_sub

L_nofile == w_nofile

\* what the user types, at the prompt of the engine and at those of the
\* nested engines
SubtreeLines == {L_sub, L_nofile, L_quit, L_hello_world, L_xyz, L_blank, L_unclosed}

\* the lines the embedding program has put on the command queue
SubtreeQueues == {<<>>, <<L_sub, L_xyz>>}

\* the engine constructed with the description, and the same after the
\* hello description was loaded too
SubtreeEngines ==
    {JCmdInit(FromDict(SubtreeTree), PyNone),
     load(JCmdInit(FromDict(SubtreeTree), PyNone), FromDict(HelloTree)).tree}

InitSubtree ==
    \E tree \in SubtreeEngines, queue \in SubtreeQueues :
        /\ cmdtree = tree
        /\ end = FALSE
        /\ cmdqueue = queue
        /\ methods = JCmdMethods
        /\ pc = "idle"
        /\ loads = 0
        /\ completion_matches = PyList(<<>>)
        /\ nested = <<>>
        /\ obs = Obs("init", <<>>, NoCycle, FALSE, NoExc)

NextSubtree ==
    \/ CmdLoopEnter
    \/ CycleFromQueue
    \/ CycleFromPrompt(SubtreeLines)
    \/ CycleOnEOF
    \/ NestedFromPrompt(SubtreeLines)
    \/ NestedOnEOF

SpecSubtree == InitSubtree /\ [][NextSubtree]_vars

\* a step taken while a nested loop runs is a step of the nested engine:
\* the engine's own tree, end flag, queue and loop are as they were
ParentSuspended ==
    nested # <<>> =>
        /\ obs'.op = "nested"
        /\ cmdtree' = cmdtree
        /\ end' = end
        /\ cmdqueue' = cmdqueue
        /\ pc' = pc

\* a subtree action of the engine constructs one nested engine whose end
\* flag is unset, and leaves the engine's own flag unset
NestedEntered ==
    (nested = <<>> /\ nested' # <<>>) =>
        /\ obs'.op = "cycle"
        /\ obs'.cycle.action = "subtree"
        /\ Len(nested') = 1
        /\ ~nested'[1].end
        /\ ~end'
        /\ pc' = "loop"

\* the outermost nested loop stopped on a quit dispatched in it
NestedQuit == obs.op = "nested" /\ nested = <<>> /\ obs.cycle.ret /\ QuitDispatched

\* when the outermost nested loop stops on its own quit the engine's loop
\* goes on, its end flag unset
NestedReturned == NestedQuit' => (pc' = "loop" /\ ~end')

\* the engine's first cycle after that return ends its loop only by a quit
\* dispatched in it
ParentEndsOnQuitOnly ==
    (NestedQuit /\ pc' = "idle") =>
        (obs'.op = "cycle" /\ obs'.cycle.called = do_eof /\ obs'.cycle.ret)

\* C15: a subtree action runs a nested read-dispatch loop on a new engine
\* with its own tree and its own end flag; while the nested loop runs the
\* engine reads and dispatches no line; when the nested loop stops on its
\* own quit the engine's loop goes on with its end flag unset and its tree
\* unchanged, and only a quit dispatched in the engine ends its loop.
C15_SubtreeReturnsToParent ==
    [][ParentSuspended /\ NestedEntered /\ NestedReturned /\ ParentEndsOnQuitOnly]_vars

\* a nested loop stopped on its own quit and the engine's loop goes on
C15_NestedQuitReturned ==
    /\ NestedQuit
    /\ pc = "loop"
    /\ ~end
    /\ cmdtree \in SubtreeEngines

=============================================================================
